---- MODULE Spec2Model ----
(***************************************************************************)
(* Model of the calibration-experiment notebooks: the combined-results     *)
(* notebook (load, filter, order, plots, summary tables), the cells of the *)
(* experiment notebooks (EvalStats, evaluation, ordering, save, plots),    *)
(* and the cross-validated evaluator, the Expected Calibration Error and   *)
(* the summary-table functions the notebooks call; further the folds of    *)
(* the evaluator handed to workers, the names bound and used by the cells  *)
(* of each experiment notebook, the predict_proba adapter of the LightGBM  *)
(* notebook and the loop of the DeiT notebook that reads the label files.  *)
(*                                                                         *)
(* Strings that the code inspects character by character (the "Reduction   *)
(* Method" names: len(), str.lower(), str.contains()) are sequences of     *)
(* one-character strings.  Floating-point values are exact rationals       *)
(* <<numerator, denominator>>.                                             *)
(***************************************************************************)
EXTENDS Integers, Sequences, FiniteSets, TLC

VARIABLES
    pc,                       \* the cell the notebook is about to run
    results_df,               \* the notebook's results_df: a sequence of Result Records
    reduction_methods_order,  \* the notebook's reduction_methods_order list
    err,                      \* the exception that stopped the notebook: [kind |-> "none"] if none
    files,                    \* the results.csv files on disk: experiment directory -> rows
    charts,                   \* the chart files on disk: file name -> the slice plotted into it
    csv,                      \* the summary CSV files on disk: file name -> table or Absent
    gt_labels,                \* the ground-truth labels handed to the evaluator
    cv,                       \* the fold count handed to the evaluator
    runs,                     \* the runs of an experiment notebook: run -> its state
    output_dir,               \* the notebook's output directory under OUTPUT_DIR
    passed,                   \* the calls of the summary functions: the collection passed, before and after
    eval_stats,               \* the notebook's EvalStats object, NoStats before it is made
    ece_before                \* the value of eval_stats.expected_calibration_error(), NoStats before

evaluator_vars == <<gt_labels, cv, runs>>
stats_vars == <<eval_stats, ece_before>>
notebook_vars_but_pc == <<results_df, reduction_methods_order, err, files, charts, csv,
                          output_dir, passed>>
notebook_vars == <<pc, results_df, reduction_methods_order, err, files, charts, csv,
                   output_dir, passed>>
vars == <<pc, results_df, reduction_methods_order, err, files, charts, csv,
          gt_labels, cv, runs, output_dir, passed, eval_stats, ece_before>>

(***************************************************************************)
(* Bounds of the model                                                     *)
(***************************************************************************)
MaxRows == 4        \* rows of results_df in the ordering specification
MaxFileRows == 2    \* rows of the first results.csv the combined notebook reads
MaxOtherRows == 1   \* rows of the second results.csv the combined notebook reads
MaxFolds == 2       \* folds of the evaluation whose results the summary tables aggregate
MaxSamples == 4     \* largest number of samples handed to the evaluator
MaxCv == 3          \* largest fold count handed to the evaluator
RngStates == 3      \* number of states of the process-wide random number generator
MaxValue == 1       \* largest metric value of a Result Record (in units of the metric)

(***************************************************************************)
(* Strings as character sequences                                          *)
(***************************************************************************)
UpperAlpha == <<"A","B","C","D","E","F","G","H","I","J","K","L","M",
                "N","O","P","Q","R","S","T","U","V","W","X","Y","Z">>
LowerAlpha == <<"a","b","c","d","e","f","g","h","i","j","k","l","m",
                "n","o","p","q","r","s","t","u","v","w","x","y","z">>

\* str.lower() on one character
LowerChar(c) ==
    IF \E i \in 1..26 : UpperAlpha[i] = c
    THEN LowerAlpha[CHOOSE i \in 1..26 : UpperAlpha[i] = c]
    ELSE c

\* Series.str.lower()
StrLower(s) == [i \in 1..Len(s) |-> LowerChar(s[i])]

\* Series.str.contains(sub) for a pattern without regex metacharacters
StrContains(s, sub) ==
    \E i \in 0..(Len(s) - Len(sub)) : SubSeq(s, i + 1, i + Len(sub)) = sub

\* Variant ("Reduction Method") names that can occur in a results file
N_Baseline == <<"B","a","s","e","l","i","n","e">>
N_ReducedX == <<"R","e","d","u","c","e","d","X">>
N_ClassWiseReducedLongName ==
    <<"C","l","a","s","s","W","i","s","e","R","e","d","u","c","e","d",
      "L","o","n","g","N","a","m","e">>
N_CW == <<"C","W">>
N_Weighted == <<"W","e","i","g","h","t","e","d">>
N_CWweighted == <<"C","W","-","w","e","i","g","h","t","e","d">>
N_WEIGHTEDCW == <<"W","E","I","G","H","T","E","D","C","W">>
N_Weighed == <<"W","e","i","g","h","e","d">>

OrderNames == {N_Baseline, N_ReducedX, N_ClassWiseReducedLongName, N_CW,
               N_Weighted, N_Weighed}

NoError == [kind |-> "none"]

\* no EvalStats object, no value computed yet
NoStats == [status |-> "none"]

(***************************************************************************)
(* Result Records                                                          *)
(***************************************************************************)
Rec(model, dataset, method, reduction, metric, fold, value) ==
    [Model |-> model, Dataset |-> dataset, CalibrationMethod |-> method,
     ReductionMethod |-> reduction, Metric |-> metric, Fold |-> fold,
     Value |-> value]

\* the summary files of the combined notebook, none written yet
SummaryFiles == {"ece_results_summary_absolute.csv", "ece_results_summary_relative.csv",
                 "cwece_results_summary_absolute.csv", "cwece_results_summary_relative.csv"}
Absent == [status |-> "absent"]
NoCsv == [f \in SummaryFiles |-> Absent]

\* no chart file written yet
NoCharts == <<>>

\* results_df["Reduction Method"]
ReductionColumn(df) == [i \in 1..Len(df) |-> df[i].ReductionMethod]

\* the column as a list, repeated values kept
WithRepeats(s) == s

\* Series.unique().tolist(): the distinct values in first-appearance order
RECURSIVE Unique(_)
Unique(s) ==
    IF s = <<>> THEN <<>>
    ELSE LET front == Unique(SubSeq(s, 1, Len(s) - 1))
             last == s[Len(s)]
         IN IF \E i \in 1..Len(front) : front[i] = last
            THEN front
            ELSE Append(front, last)

(***************************************************************************)
(* The ordering cell: [order[0]] + sorted(order[1:], key=len)              *)
(***************************************************************************)
\* one insertion of the stable sort: x goes after every placed name that is not longer
InsertByLen(x, s) ==
    LET k == Cardinality({i \in 1..Len(s) : Len(s[i]) <= Len(x)})
    IN SubSeq(s, 1, k) \o <<x>> \o SubSeq(s, k + 1, Len(s))

\* sorted(s, key=len): Python's sort is stable
RECURSIVE SortedByLen(_)
SortedByLen(s) ==
    IF s = <<>> THEN <<>>
    ELSE InsertByLen(s[Len(s)], SortedByLen(SubSeq(s, 1, Len(s) - 1)))

\* the ordering without the pinned first element
OrderVariantsUnpinned(names) == SortedByLen(names)

\* [names[0]] + sorted(names[1:], key=len), for a non-empty list
OrderVariants(names) == <<names[1]>> \o SortedByLen(SubSeq(names, 2, Len(names)))

\* the cell that builds reduction_methods_order; names[0] of an empty list
\* raises IndexError and the notebook stops
OrderCell ==
    /\ pc = "order"
    /\ LET names == Unique(ReductionColumn(results_df))
       IN IF names = <<>>
          THEN /\ pc' = "stopped"
               /\ err' = [kind |-> "IndexError"]
               /\ UNCHANGED <<evaluator_vars, stats_vars, output_dir, passed,
                       results_df, reduction_methods_order, files, charts, csv>>
          ELSE /\ reduction_methods_order' = OrderVariants(names)
               /\ pc' = "ordered"
               /\ UNCHANGED <<evaluator_vars, stats_vars, output_dir, passed,
                       results_df, err, files, charts, csv>>

(***************************************************************************)
(* Exact arithmetic for the values of the tables: <<numerator, denominator>>*)
(* with a positive denominator, in lowest terms                            *)
(***************************************************************************)
Abs(x) == IF x < 0 THEN -x ELSE x

RECURSIVE Gcd(_, _)
Gcd(a, b) == IF b = 0 THEN a ELSE Gcd(b, a % b)

\* a zero denominator stands for the float results of a division by zero:
\* <<1, 0>> is inf, <<-1, 0>> is -inf and <<0, 0>> is NaN
RNorm(n, d) ==
    IF d = 0
    THEN <<IF n > 0 THEN 1 ELSE IF n < 0 THEN -1 ELSE 0, 0>>
    ELSE LET g == Gcd(Abs(n), Abs(d))
             sgn == IF d < 0 THEN -1 ELSE 1
         IN <<sgn * (n \div g), sgn * (d \div g)>>

RInt(x) == <<x, 1>>
RAdd(p, q) == RNorm(p[1] * q[2] + q[1] * p[2], p[2] * q[2])
RSub(p, q) == RNorm(p[1] * q[2] - q[1] * p[2], p[2] * q[2])
RMul(p, q) == RNorm(p[1] * q[1], p[2] * q[2])
RDiv(p, q) == RNorm(p[1] * q[2], p[2] * q[1])      \* q is not zero
RZero == RInt(0)

RECURSIVE RSum(_)
RSum(vals) ==
    IF vals = <<>> THEN RZero
    ELSE RAdd(vals[Len(vals)], RSum(SubSeq(vals, 1, Len(vals) - 1)))

\* the mean of a non-empty sequence of values
Mean(vals) == RDiv(RSum(vals), RInt(Len(vals)))

\* the squared standard deviation with the divisor n - 1: NaN for a single value
VarianceSample(vals) ==
    LET m == Mean(vals)
    IN RDiv(RSum([i \in 1..Len(vals) |-> RMul(RSub(vals[i], m), RSub(vals[i], m))]),
            RInt(Len(vals) - 1))

\* the squared standard deviation of a non-empty sequence of values; it is 0
\* for a single value
Variance(vals) ==
    LET m == Mean(vals)
    IN Mean([i \in 1..Len(vals) |-> RMul(RSub(vals[i], m), RSub(vals[i], m))])

(***************************************************************************)
(* The summary-table functions of src.utils                                *)
(***************************************************************************)
\* df[mask]: the rows of df whose entry of the boolean mask is true, in order
\* (boolean indexing, DataFrame.query)
Rows(df, mask) ==
    LET idx == {i \in 1..Len(df) : mask[i]}
        nth(k) == CHOOSE i \in idx : Cardinality({j \in idx : j <= i}) = k
    IN [k \in 1..Cardinality(idx) |-> df[nth(k)]]

\* the (model, dataset) pairs of a table's index
Groups(df) == {<<df[i].Model, df[i].Dataset>> : i \in 1..Len(df)}

\* the fold values of one (model, dataset, variant) group, in row order
FoldValues(df, g, v) ==
    LET InGroup(r) == r.Model = g[1] /\ r.Dataset = g[2] /\ r.ReductionMethod = v
        rows == Rows(df, [i \in 1..Len(df) |-> InGroup(df[i])])
    IN [i \in 1..Len(rows) |-> RInt(rows[i].Value)]

\* the (model, dataset, variant) groups of the table that have no fold at all
EmptyGroups(df, order) ==
    {<<g, order[i]>> : g \in Groups(df), i \in 1..Len(order)}
        \ {<<<<df[k].Model, df[k].Dataset>>, df[k].ReductionMethod>> : k \in 1..Len(df)}

\* a Summary Record: mean and squared standard deviation over n folds
SummaryRecord(vals) == [mean |-> Mean(vals), var |-> Variance(vals), n |-> Len(vals)]

\* the collection passed to the relative summary, as it would be left by a
\* function that rescales the Value column in place
RelativeSummaryInputRescaled(df, order) ==
    [i \in 1..Len(df) |-> [df[i] EXCEPT !.Value = 100 * df[i].Value]]

\* the collection passed to a summary function, as the call leaves it: the
\* functions build a new table and never mutate their input
AbsoluteSummaryInput(df, order) == df
RelativeSummaryInput(df, order) == df

\* create_summary_table_with_absolute_values_and_stddev: rows indexed by
\* (model, dataset), one column per variant in the supplied order; a group
\* without any fold is an explicit error
AbsoluteSummary(df, order) ==
    IF EmptyGroups(df, order) # {}
    THEN [status |-> "error", kind |-> "EmptyGroup", groups |-> EmptyGroups(df, order)]
    ELSE [status |-> "ok",
          columns |-> order,
          rows |-> [g \in Groups(df) |->
                      [i \in 1..Len(order) |-> SummaryRecord(FoldValues(df, g, order[i]))]]]

\* the change as a ratio, without the factor 100
RelativeChangeAsRatio(x, bm) == RDiv(RSub(x, bm), bm)

\* value -> (value - baseline_mean) / baseline_mean * 100
RelativeChange(x, bm) == RMul(RDiv(RSub(x, bm), bm), RInt(100))

\* create_summary_table_with_relative_change_and_stddev: the baseline of a
\* group is the first variant of the supplied order; a group whose baseline
\* mean is 0 is flagged and holds no numbers
RelativeSummary(df, order) ==
    IF EmptyGroups(df, order) # {}
    THEN [status |-> "error", kind |-> "EmptyGroup", groups |-> EmptyGroups(df, order)]
    ELSE LET bm(g) == Mean(FoldValues(df, g, order[1]))
             rel(g, v) == LET vals == FoldValues(df, g, v)
                          IN [i \in 1..Len(vals) |-> RelativeChange(vals[i], bm(g))]
         IN [status |-> "ok",
             columns |-> order,
             flagged |-> {g \in Groups(df) : bm(g) = RZero},
             rows |-> [g \in Groups(df) |->
                         IF bm(g) = RZero
                         THEN [i \in 1..Len(order) |-> [flag |-> "baseline mean is 0"]]
                         ELSE [i \in 1..Len(order) |-> SummaryRecord(rel(g, order[i]))]]]

(***************************************************************************)
(* Specification of the ordering cell on its own: results_df holds any     *)
(* rows, the notebook stands before the ordering cell                      *)
(***************************************************************************)
OrderRows ==
    {Rec("DeiT", "RVL-CDIP", "Isotonic", n, "ECE", 0, 0) : n \in OrderNames}

SeqsUpTo(S, n) == UNION {[1..k -> S] : k \in 0..n}

InitOrder ==
    /\ pc = "order"
    /\ results_df \in SeqsUpTo(OrderRows, MaxRows)
    /\ reduction_methods_order = <<>>
    /\ err = NoError
    /\ files = <<>>
    /\ charts = NoCharts
    /\ csv = NoCsv
    /\ gt_labels = <<>>
    /\ cv = 0
    /\ runs = <<>>
    /\ output_dir = "combined_results"
    /\ passed = <<>>
    /\ eval_stats = NoStats
    /\ ece_before = NoStats

NextOrder == OrderCell

SpecOrder == InitOrder /\ [][NextOrder]_vars

(***************************************************************************)
(* C1: after the ordering cell, the list is the first-appearance list      *)
(* rearranged so that its first name stays at position 0 and the remaining *)
(* names follow by ascending length, names of equal length in their        *)
(* first-appearance order.                                                 *)
(***************************************************************************)
PositionIn(s, x) == CHOOSE i \in 1..Len(s) : s[i] = x

C1_OrderPinnedThenByLength ==
    pc = "ordered" =>
        LET inp == Unique(ReductionColumn(results_df))
            out == reduction_methods_order
        IN /\ Len(out) = Len(inp)
           /\ {out[i] : i \in 1..Len(out)} = {inp[i] : i \in 1..Len(inp)}
           /\ out[1] = inp[1]
           /\ \A i, j \in 2..Len(out) :
                 i < j =>
                    /\ Len(out[i]) <= Len(out[j])
                    /\ Len(out[i]) = Len(out[j])
                          => PositionIn(inp, out[i]) < PositionIn(inp, out[j])

\* the spec's example: [Baseline, ReducedX, ClassWiseReducedLongName, CW]
\* has been ordered to [Baseline, CW, ReducedX, ClassWiseReducedLongName]
C1_Witness ==
    /\ pc = "ordered"
    /\ Unique(ReductionColumn(results_df)) =
          <<N_Baseline, N_ReducedX, N_ClassWiseReducedLongName, N_CW>>
    /\ reduction_methods_order =
          <<N_Baseline, N_CW, N_ReducedX, N_ClassWiseReducedLongName>>

(***************************************************************************)
(* The combined-results notebook                                           *)
(***************************************************************************)
\* pd.concat of the tables read, in the order the files were found
RECURSIVE Concat(_)
Concat(tables) ==
    IF tables = <<>> THEN <<>>
    ELSE Concat(SubSeq(tables, 1, Len(tables) - 1)) \o tables[Len(tables)]

\* the value pandas puts where a table has no value: the entries of a column
\* in the rows of a file that does not have the column
NaN(column) == IF column = "ReductionMethod" THEN <<"NaN">> ELSE "NaN"

\* the columns of a table that has rows
Columns(df) == UNION {DOMAIN df[i] : i \in 1..Len(df)}

\* pd.concat of tables whose columns differ: the result has the union of the
\* columns, NaN where a table had no such column
FillMissing(df) ==
    [i \in 1..Len(df) |->
        IF DOMAIN df[i] = Columns(df) THEN df[i]
        ELSE [c \in Columns(df) |-> IF c \in DOMAIN df[i] THEN df[i][c] ELSE NaN(c)]]

\* the orders in which OUTPUT_DIR.rglob("results.csv") can yield the files found
DiscoveryOrders(dirs) ==
    {o \in [1..Cardinality(dirs) -> dirs] : \A i, j \in 1..Cardinality(dirs) : o[i] = o[j] => i = j}

\* the load cell without all_results = []: the frames read are concatenated
\* onto the rows the kernel already holds
LoadCellKeepingRows ==
    /\ pc = "load"
    /\ IF DOMAIN files = {}
       THEN /\ pc' = "stopped"
            /\ err' = [kind |-> "ValueError"]
            /\ UNCHANGED <<evaluator_vars, stats_vars, output_dir, passed,
                       results_df, reduction_methods_order, files, charts, csv>>
       ELSE \E o \in DiscoveryOrders(DOMAIN files) :
               /\ results_df' = FillMissing(results_df
                                            \o Concat([i \in 1..Len(o) |-> files[o[i]]]))
               /\ pc' = "filter"
               /\ UNCHANGED <<evaluator_vars, stats_vars, output_dir, passed,
                       reduction_methods_order, err, files, charts, csv>>

\* all_results = [read_csv(f) for f in rglob("results.csv")]; pd.concat(all_results);
\* pd.concat of an empty list raises ValueError
LoadCell ==
    /\ pc = "load"
    /\ IF DOMAIN files = {}
       THEN /\ pc' = "stopped"
            /\ err' = [kind |-> "ValueError"]
            /\ UNCHANGED <<evaluator_vars, stats_vars, output_dir, passed,
                       results_df, reduction_methods_order, files, charts, csv>>
       ELSE \E o \in DiscoveryOrders(DOMAIN files) :
               /\ results_df' = FillMissing(Concat([i \in 1..Len(o) |-> files[o[i]]]))
               /\ pc' = "filter"
               /\ UNCHANGED <<evaluator_vars, stats_vars, output_dir, passed,
                       reduction_methods_order, err, files, charts, csv>>

W_weighted == <<"w","e","i","g","h","t","e","d">>

NotDiagnostic(r) == r.Metric # "condition" /\ r.Metric # "weak_condition"
NotWeighted(r) == ~StrContains(StrLower(r.ReductionMethod), W_weighted)
NotWeightedCaseSensitive(r) == ~StrContains(r.ReductionMethod, W_weighted)

\* the filter with the variant test done without str.lower()
FilterResultsCaseSensitive(df) ==
    LET queried == Rows(df, [i \in 1..Len(df) |-> NotDiagnostic(df[i])])
    IN Rows(queried, [i \in 1..Len(queried) |-> NotWeightedCaseSensitive(queried[i])])

\* results_df.query("(Metric != 'condition') & (Metric != 'weak_condition')")
\* then results_df[~results_df["Reduction Method"].str.lower().str.contains("weighted")]
FilterResults(df) ==
    LET queried == Rows(df, [i \in 1..Len(df) |-> NotDiagnostic(df[i])])
    IN Rows(queried, [i \in 1..Len(queried) |-> NotWeighted(queried[i])])

\* the filter cell.  query() raises UndefinedVariableError for a column no
\* file had; results_df["Reduction Method"] raises KeyError for a column no
\* file had; ~ raises TypeError when str.contains gave NaN for a row
FilterCell ==
    /\ pc = "filter"
    /\ LET queried == Rows(results_df,
                           [i \in 1..Len(results_df) |-> NotDiagnostic(results_df[i])])
           failure ==
               IF results_df # <<>> /\ "Metric" \notin Columns(results_df)
               THEN [kind |-> "UndefinedVariableError", name |-> "Metric"]
               ELSE IF results_df # <<>> /\ "ReductionMethod" \notin Columns(results_df)
               THEN [kind |-> "KeyError", name |-> "Reduction Method"]
               ELSE IF \E i \in 1..Len(queried) :
                          queried[i].ReductionMethod = NaN("ReductionMethod")
               THEN [kind |-> "TypeError", name |-> "~"]
               ELSE NoError
       IN IF failure.kind # "none"
          THEN /\ pc' = "stopped"
               /\ err' = failure
               /\ results_df' = results_df
          ELSE /\ pc' = "order"
               /\ err' = err
               /\ results_df' = FilterResults(results_df)
    /\ UNCHANGED <<evaluator_vars, stats_vars, output_dir, passed,
                       reduction_methods_order, files, charts, csv>>

\* the chart each plot cell writes, and the position of the notebook before it
PlotFiles == <<"evaluation_ECE_rf_balanced.eps", "evaluation_ECE_rf_imbalanced.eps",
               "evaluation_ECE_rf_temperature_scaling.eps", "evaluation_ECE_multiple.eps",
               "evaluation_cwECE_multiple.eps">>
PlotPc == <<"ordered", "plot2", "plot3", "plot4", "plot5", "tables_ece">>

\* the slices the plot cells of the combined notebook plot, in cell order
PlotSlices == <<"rf_balanced", "rf_imbalanced", "rf_temperature_scaling",
                "multiple_ECE", "multiple_cwECE">>

\* the query that selects the rows of a slice
SliceCondition(slice, r) ==
    CASE slice = "rf_balanced" ->
            /\ r.Model = "Random Forest" /\ r.Dataset = "Synthetic Balanced"
            /\ r.CalibrationMethod # "TemperatureScaling"
      [] slice = "rf_imbalanced" ->
            /\ r.Model = "Random Forest" /\ r.Dataset = "Synthetic Imbalanced"
            /\ r.CalibrationMethod # "TemperatureScaling"
      [] slice = "rf_temperature_scaling" ->
            r.Model = "Random Forest" /\ r.CalibrationMethod = "TemperatureScaling"
      [] slice = "multiple_ECE" -> r.Model # "Random Forest" /\ r.Metric = "ECE"
      [] slice = "multiple_cwECE" -> r.Model # "Random Forest" /\ r.Metric = "cwECE"
      [] slice = "balanced" ->
            /\ r.Dataset = "Synthetic Balanced"
            /\ r.CalibrationMethod # "TemperatureScaling"
      [] slice = "imbalanced" ->
            /\ r.Dataset = "Synthetic Imbalanced"
            /\ r.CalibrationMethod # "TemperatureScaling"
      [] slice = "temperature_scaling" -> r.CalibrationMethod = "TemperatureScaling"
      [] slice = "all" -> TRUE

\* results_df.query(...) of a plot call
Slice(slice, df) == Rows(df, [i \in 1..Len(df) |-> SliceCondition(slice, df[i])])

\* the chart files after plot_evaluation_results_from_dataframe has written
\* the chart of a slice to output_file: a file of that name is replaced
WriteChart(ch, file, slice, df) ==
    [f \in DOMAIN ch \cup {file} |->
        IF f = file THEN [slice |-> slice, df |-> df] ELSE ch[f]]

\* plot_evaluation_results_from_dataframe(df=..., hue_order=..., output_file=...)
PlotCell(k) ==
    /\ pc = PlotPc[k]
    /\ output_dir = "combined_results"
    /\ charts' = WriteChart(charts, PlotFiles[k], PlotSlices[k],
                            Slice(PlotSlices[k], results_df))
    /\ pc' = PlotPc[k + 1]
    /\ UNCHANGED <<evaluator_vars, stats_vars, output_dir, passed,
                       results_df, reduction_methods_order, err, files, csv>>

\* the slice handed to the summary functions, without the metric test
MetricSliceAllMetrics(df, metric) == df

\* results_df[results_df["Metric"] == metric]
MetricSlice(df, metric) == Rows(df, [i \in 1..Len(df) |-> df[i].Metric = metric])

\* a file that was opened for writing and not written to the end
Partial == [status |-> "partial"]

\* a tables cell that opens its two output files before it computes the tables:
\* an exception leaves the files it did not get to write truncated
TablesCellOpenFirst(metric, absolute_file, relative_file, from, to) ==
    /\ pc = from
    /\ LET slice == MetricSlice(results_df, metric)
           absolute == AbsoluteSummary(slice, reduction_methods_order)
           relative == RelativeSummary(slice, reduction_methods_order)
           absolute_call == [function |-> "absolute", metric |-> metric, input |-> slice,
                             after |-> AbsoluteSummaryInput(slice, reduction_methods_order)]
           relative_call == [function |-> "relative", metric |-> metric, input |-> slice,
                             after |-> RelativeSummaryInput(slice, reduction_methods_order)]
       IN IF absolute.status = "error"
          THEN /\ pc' = "stopped"
               /\ err' = [kind |-> absolute.kind, groups |-> absolute.groups,
                          metric |-> metric]
               /\ csv' = [csv EXCEPT ![absolute_file] = Partial,
                                     ![relative_file] = Partial]
               /\ passed' = Append(passed, absolute_call)
          ELSE /\ pc' = to
               /\ err' = err
               /\ csv' = [csv EXCEPT ![absolute_file] = absolute,
                                     ![relative_file] = relative]
               /\ passed' = passed \o <<absolute_call, relative_call>>
    /\ UNCHANGED <<evaluator_vars, stats_vars, output_dir,
                   results_df, reduction_methods_order, files, charts>>

\* a tables cell: the absolute summary is computed and written, then the
\* relative summary is computed (on a copy of the slice) and written; an
\* exception of either function stops the notebook there.  Each call gets a
\* collection of its own (the result of the boolean indexing, and its
\* .copy()), results_df itself is not assigned
TablesCell(metric, absolute_file, relative_file, from, to) ==
    /\ pc = from
    /\ LET slice == MetricSlice(results_df, metric)
           absolute == AbsoluteSummary(slice, reduction_methods_order)
           relative == RelativeSummary(slice, reduction_methods_order)
           copy == slice
           absolute_call == [function |-> "absolute", metric |-> metric, input |-> slice,
                             after |-> AbsoluteSummaryInput(slice, reduction_methods_order)]
           relative_call == [function |-> "relative", metric |-> metric, input |-> copy,
                             after |-> RelativeSummaryInput(copy, reduction_methods_order)]
       IN IF absolute.status = "error"
          THEN /\ pc' = "stopped"
               /\ err' = [kind |-> absolute.kind, groups |-> absolute.groups,
                          metric |-> metric]
               /\ csv' = csv
               /\ passed' = Append(passed, absolute_call)
          ELSE IF relative.status = "error"
          THEN /\ pc' = "stopped"
               /\ err' = [kind |-> relative.kind, groups |-> relative.groups,
                          metric |-> metric]
               /\ csv' = [csv EXCEPT ![absolute_file] = absolute]
               /\ passed' = passed \o <<absolute_call, relative_call>>
          ELSE /\ pc' = to
               /\ err' = err
               /\ csv' = [csv EXCEPT ![absolute_file] = absolute,
                                     ![relative_file] = relative]
               /\ passed' = passed \o <<absolute_call, relative_call>>
    /\ UNCHANGED <<evaluator_vars, stats_vars, output_dir,
                   results_df, reduction_methods_order, files, charts>>

TablesECE ==
    TablesCell("ECE", "ece_results_summary_absolute.csv",
               "ece_results_summary_relative.csv", "tables_ece", "tables_cwece")

TablescwECE ==
    TablesCell("cwECE", "cwece_results_summary_absolute.csv",
               "cwece_results_summary_relative.csv", "tables_cwece", "done")

NextCombined ==
    \/ LoadCell
    \/ FilterCell
    \/ OrderCell
    \/ \E k \in 1..Len(PlotFiles) : PlotCell(k)
    \/ TablesECE
    \/ TablescwECE

(***************************************************************************)
(* The combined notebook over any results files                            *)
(***************************************************************************)
ExperimentDirs == {"deit_rvl_cdip", "distilbert_imdb"}

\* the rows a results.csv of one experiment can hold
FileRows(model, dataset) ==
    {Rec(model, dataset, "Isotonic", N_Baseline, "ECE", 0, 2),
     Rec(model, dataset, "Isotonic", N_CW, "ECE", 0, 1),
     Rec(model, dataset, "Isotonic", N_CWweighted, "ECE", 0, 3),
     Rec(model, dataset, "Isotonic", N_WEIGHTEDCW, "cwECE", 0, 1),
     Rec(model, dataset, "Isotonic", N_Baseline, "condition", 0, 5),
     Rec(model, dataset, "Isotonic", N_CW, "weak_condition", 0, 1),
     Rec(model, dataset, "Isotonic", N_Weighed, "cwECE", 0, 2)}

FileContents(dir) ==
    IF dir = "deit_rvl_cdip"
    THEN SeqsUpTo(FileRows("DeiT", "RVL-CDIP"), MaxFileRows)
    ELSE SeqsUpTo(FileRows("DistilBERT", "IMDB"), MaxOtherRows)

InitCombined ==
    /\ pc = "load"
    /\ results_df = <<>>
    /\ reduction_methods_order = <<>>
    /\ err = NoError
    /\ \E dirs \in SUBSET ExperimentDirs :
          files \in {f \in [dirs -> UNION {FileContents(d) : d \in dirs}] :
                        \A d \in dirs : f[d] \in FileContents(d)}
    /\ charts = NoCharts
    /\ csv = NoCsv
    /\ gt_labels = <<>>
    /\ cv = 0
    /\ runs = <<>>
    /\ output_dir = "combined_results"
    /\ passed = <<>>
    /\ eval_stats = NoStats
    /\ ece_before = NoStats

SpecCombined == InitCombined /\ [][NextCombined]_vars

(***************************************************************************)
(* C2: once the filter cell has run, results_df holds no row whose Metric  *)
(* is 'condition' or 'weak_condition' and no row of a variant whose name   *)
(* contains "weighted" in any letter case; every other row of the files    *)
(* read is still there, as often as it was read; and no summary table      *)
(* written has a weighted variant as a column or counts a diagnostic row.  *)
(***************************************************************************)
AnyCaseWeighted == <<{"w","W"}, {"e","E"}, {"i","I"}, {"g","G"},
                     {"h","H"}, {"t","T"}, {"e","E"}, {"d","D"}>>

ContainsWeightedAnyCase(name) ==
    \E i \in 0..(Len(name) - 8) : \A k \in 1..8 : name[i + k] \in AnyCaseWeighted[k]

Dropped(r) ==
    \/ r.Metric \in {"condition", "weak_condition"}
    \/ ContainsWeightedAnyCase(r.ReductionMethod)

FilterHasRun ==
    \/ pc \in {"order", "ordered", "plot2", "plot3", "plot4", "plot5",
               "tables_ece", "tables_cwece", "done"}
    \/ pc = "stopped" /\ err.kind # "ValueError"

RowsRead == UNION {{<<d, i>> : i \in 1..Len(files[d])} : d \in DOMAIN files}

TimesRead(r) == Cardinality({x \in RowsRead : files[x[1]][x[2]] = r})
TimesIn(df, r) == Cardinality({i \in 1..Len(df) : df[i] = r})

TableMetric(file) ==
    IF file \in {"ece_results_summary_absolute.csv", "ece_results_summary_relative.csv"}
    THEN "ECE" ELSE "cwECE"

C2_FilterDropsDiagnosticsAndWeighted ==
    FilterHasRun =>
        /\ \A i \in 1..Len(results_df) : ~Dropped(results_df[i])
        /\ \A x \in RowsRead :
              LET r == files[x[1]][x[2]]
              IN ~Dropped(r) => TimesIn(results_df, r) = TimesRead(r)
        /\ Len(results_df) = Cardinality({x \in RowsRead : ~Dropped(files[x[1]][x[2]])})
        /\ \A f \in SummaryFiles :
              csv[f].status = "ok" =>
                 /\ \A i \in 1..Len(csv[f].columns) :
                       ~ContainsWeightedAnyCase(csv[f].columns[i])
                 /\ \A g \in DOMAIN csv[f].rows : \A i \in 1..Len(csv[f].columns) :
                       "n" \in DOMAIN csv[f].rows[g][i] =>
                          csv[f].rows[g][i].n =
                             Cardinality({x \in RowsRead :
                                LET r == files[x[1]][x[2]]
                                IN /\ r.Model = g[1] /\ r.Dataset = g[2]
                                   /\ r.ReductionMethod = csv[f].columns[i]
                                   /\ r.Metric = TableMetric(f)})

\* a run that read a diagnostic row and a row of a weighted variant and
\* wrote its tables from the rows that were left
C2_Witness ==
    /\ pc = "done"
    /\ \E x \in RowsRead : files[x[1]][x[2]].Metric = "condition"
    /\ \E x \in RowsRead : files[x[1]][x[2]].ReductionMethod = N_WEIGHTEDCW
    /\ Len(results_df) > 0
    /\ DOMAIN csv["ece_results_summary_absolute.csv"].rows # {}

(***************************************************************************)
(* The combined notebook over the results of one experiment, some of whose *)
(* (variant, fold) records may be missing                                  *)
(***************************************************************************)
SummaryVariants == <<N_Baseline, N_CW>>
Missing == -1

\* the rows of the results file: per variant its ECE rows by fold, then its
\* cwECE row; ece[v][f] is the ECE value or Missing, cw[v] says whether the
\* cwECE row of fold 0 is there
SummaryFileRows(ece, cw) ==
    LET slots == Concat([v \in 1..Len(SummaryVariants) |->
                     [k \in 1..MaxFolds + 1 |->
                        IF k <= MaxFolds
                        THEN [present |-> ece[v][k] # Missing,
                              row |-> Rec("DeiT", "RVL-CDIP", "Isotonic",
                                          SummaryVariants[v], "ECE", k - 1, ece[v][k])]
                        ELSE [present |-> cw[v],
                              row |-> Rec("DeiT", "RVL-CDIP", "Isotonic",
                                          SummaryVariants[v], "cwECE", 0, 1)]]])
        kept == Rows(slots, [i \in 1..Len(slots) |-> slots[i].present])
    IN [i \in 1..Len(kept) |-> kept[i].row]

InitSummary ==
    /\ pc = "load"
    /\ results_df = <<>>
    /\ reduction_methods_order = <<>>
    /\ err = NoError
    /\ \E ece \in [1..Len(SummaryVariants) -> [1..MaxFolds -> {Missing} \cup 0..MaxValue]],
          cw \in [1..Len(SummaryVariants) -> BOOLEAN] :
          files = [d \in {"deit_rvl_cdip"} |-> SummaryFileRows(ece, cw)]
    /\ charts = NoCharts
    /\ csv = NoCsv
    /\ gt_labels = <<>>
    /\ cv = 0
    /\ runs = <<>>
    /\ output_dir = "combined_results"
    /\ passed = <<>>
    /\ eval_stats = NoStats
    /\ ece_before = NoStats

SpecSummary == InitSummary /\ [][NextCombined]_vars

(***************************************************************************)
(* What the tables must hold, computed from the rows of results_df         *)
(***************************************************************************)
AbsoluteFile(metric) ==
    IF metric = "ECE" THEN "ece_results_summary_absolute.csv"
    ELSE "cwece_results_summary_absolute.csv"
RelativeFile(metric) ==
    IF metric = "ECE" THEN "ece_results_summary_relative.csv"
    ELSE "cwece_results_summary_relative.csv"

\* the rows of results_df of one metric and one (model, dataset, variant) group
FoldsOf(metric, g, v) ==
    {i \in 1..Len(results_df) :
        /\ results_df[i].Metric = metric
        /\ results_df[i].Model = g[1] /\ results_df[i].Dataset = g[2]
        /\ results_df[i].ReductionMethod = v}

MetricGroups(metric) ==
    {<<results_df[i].Model, results_df[i].Dataset>> :
        i \in {k \in 1..Len(results_df) : results_df[k].Metric = metric}}

\* the groups of a metric's table that have no fold
ZeroFoldGroups(metric) ==
    {x \in MetricGroups(metric) \X {reduction_methods_order[i] :
                                       i \in 1..Len(reduction_methods_order)} :
        FoldsOf(metric, x[1], x[2]) = {}}

RECURSIVE SumValues(_)
SumValues(S) ==
    IF S = {} THEN 0
    ELSE LET i == CHOOSE k \in S : TRUE IN results_df[i].Value + SumValues(S \ {i})

RECURSIVE SumSquares(_)
SumSquares(S) ==
    IF S = {} THEN 0
    ELSE LET i == CHOOSE k \in S : TRUE
         IN results_df[i].Value * results_df[i].Value + SumSquares(S \ {i})

ExpectedMean(S) == RNorm(SumValues(S), Cardinality(S))
ExpectedVar(S) ==
    RNorm(Cardinality(S) * SumSquares(S) - SumValues(S) * SumValues(S),
          Cardinality(S) * Cardinality(S))

\* the variant the notebook pins first: the first variant of the filtered rows
DesignatedBaseline == results_df[1].ReductionMethod

(***************************************************************************)
(* C5: with some (variant, fold) records missing, every Summary Record of  *)
(* a written table is computed over exactly the folds present for its      *)
(* group (count, mean and squared standard deviation in the absolute       *)
(* table; count and squared standard deviation of the rescaled values in   *)
(* the relative table), and a tables cell stops with an error only when    *)
(* some group of its table has no fold at all.                             *)
(***************************************************************************)
C5_StatisticsOverAvailableFolds ==
    \A metric \in {"ECE", "cwECE"} :
        LET absolute == csv[AbsoluteFile(metric)]
            relative == csv[RelativeFile(metric)]
        IN /\ absolute.status = "ok" =>
                \A g \in DOMAIN absolute.rows : \A i \in 1..Len(absolute.columns) :
                    LET S == FoldsOf(metric, g, absolute.columns[i])
                        cell == absolute.rows[g][i]
                    IN /\ S # {}
                       /\ cell.n = Cardinality(S)
                       /\ cell.mean = ExpectedMean(S)
                       /\ cell.var = ExpectedVar(S)
           /\ relative.status = "ok" =>
                \A g \in DOMAIN relative.rows \ relative.flagged :
                   \A i \in 1..Len(relative.columns) :
                    LET S == FoldsOf(metric, g, relative.columns[i])
                        bm == ExpectedMean(FoldsOf(metric, g, relative.columns[1]))
                        cell == relative.rows[g][i]
                    IN /\ cell.n = Cardinality(S)
                       /\ RMul(cell.var, RMul(bm, bm)) = RMul(ExpectedVar(S), RInt(10000))
           /\ (pc = "stopped" /\ err.kind = "EmptyGroup" /\ err.metric = metric)
                 => ZeroFoldGroups(metric) # {}
           /\ (pc \in {"tables_cwece", "done"} /\ metric = "ECE")
                 => absolute.status = "ok" /\ relative.status = "ok"

\* both ECE tables were written although one variant has fewer folds than the other
C5_Witness ==
    /\ pc = "done"
    /\ Len(reduction_methods_order) = 2
    /\ csv["ece_results_summary_relative.csv"].status = "ok"
    /\ LET row == csv["ece_results_summary_absolute.csv"].rows[<<"DeiT", "RVL-CDIP">>]
       IN row[1].n = MaxFolds /\ row[2].n = 1 /\ row[2].n < MaxFolds

(***************************************************************************)
(* C6: a tables cell whose table has a (model, dataset, variant) group     *)
(* with no fold stops with an error that names the group and writes no     *)
(* table of that metric; a written table has a Summary Record over at      *)
(* least one fold for every group and every variant of the ordering.       *)
(***************************************************************************)
C6_EmptyGroupIsAnError ==
    \A metric \in {"ECE", "cwECE"} :
        LET absolute == csv[AbsoluteFile(metric)]
            relative == csv[RelativeFile(metric)]
            past == IF metric = "ECE" THEN pc \in {"tables_cwece", "done"}
                    ELSE pc = "done"
        IN /\ past => ZeroFoldGroups(metric) = {}
           /\ (pc = "stopped" /\ err.kind = "EmptyGroup" /\ err.metric = metric)
                 => /\ err.groups = ZeroFoldGroups(metric)
                    /\ absolute.status = "absent" /\ relative.status = "absent"
           /\ (pc = "stopped" /\ err.kind = "EmptyGroup" /\ metric = "cwECE"
                  /\ err.metric = "ECE")
                 => absolute.status = "absent" /\ relative.status = "absent"
           /\ absolute.status = "ok" =>
                 /\ DOMAIN absolute.rows = MetricGroups(metric)
                 /\ absolute.columns = reduction_methods_order
                 /\ \A g \in DOMAIN absolute.rows : \A i \in 1..Len(absolute.columns) :
                       absolute.rows[g][i].n >= 1
           /\ relative.status = "ok" =>
                 /\ DOMAIN relative.rows = MetricGroups(metric)
                 /\ relative.columns = reduction_methods_order

\* the ECE tables cell stopped: one variant has ECE folds, the other has none
C6_Witness ==
    /\ pc = "stopped"
    /\ err.kind = "EmptyGroup"
    /\ err.metric = "ECE"
    /\ err.groups = {<<<<"DeiT", "RVL-CDIP">>, N_CW>>}
    /\ FoldsOf("ECE", <<"DeiT", "RVL-CDIP">>, N_Baseline) # {}

(***************************************************************************)
(* C7: in a written relative table, for a group whose baseline mean is     *)
(* not 0, the entry of every non-baseline variant is                       *)
(* (mean - baseline_mean) / baseline_mean * 100, baseline_mean being the   *)
(* across-fold mean of the designated baseline variant of the group.       *)
(***************************************************************************)
C7_RelativeChangeFormula ==
    \A metric \in {"ECE", "cwECE"} :
        LET relative == csv[RelativeFile(metric)]
        IN relative.status = "ok" =>
              \A g \in DOMAIN relative.rows : \A i \in 1..Len(relative.columns) :
                 LET bm == ExpectedMean(FoldsOf(metric, g, DesignatedBaseline))
                     m == ExpectedMean(FoldsOf(metric, g, relative.columns[i]))
                 IN (relative.columns[i] # DesignatedBaseline /\ bm # RZero)
                       => /\ "mean" \in DOMAIN relative.rows[g][i]
                          /\ relative.rows[g][i].mean =
                                RMul(RDiv(RSub(m, bm), bm), RInt(100))

\* a relative ECE table with a non-baseline entry different from 0
C7_Witness ==
    /\ pc = "done"
    /\ DesignatedBaseline = N_Baseline
    /\ Len(reduction_methods_order) = 2
    /\ LET relative == csv["ece_results_summary_relative.csv"]
       IN /\ relative.status = "ok"
          /\ relative.flagged = {}
          /\ relative.rows[<<"DeiT", "RVL-CDIP">>][2].mean = RInt(-50)

(***************************************************************************)
(* C8: in a written relative table, a group whose designated baseline has  *)
(* mean 0 is flagged and its entries hold the flag instead of numbers; no  *)
(* entry of the table is inf or NaN.                                       *)
(***************************************************************************)
C8_ZeroBaselineIsFlagged ==
    \A metric \in {"ECE", "cwECE"} :
        LET relative == csv[RelativeFile(metric)]
        IN relative.status = "ok" =>
              \A g \in DOMAIN relative.rows : \A i \in 1..Len(relative.columns) :
                 LET bm == ExpectedMean(FoldsOf(metric, g, DesignatedBaseline))
                     cell == relative.rows[g][i]
                 IN /\ bm = RZero => g \in relative.flagged
                    /\ g \in relative.flagged => DOMAIN cell = {"flag"}
                    /\ g \notin relative.flagged =>
                          cell.mean[2] # 0 /\ cell.var[2] # 0

\* a relative ECE table whose baseline values are all 0 while the other
\* variant has a value that is not 0
C8_Witness ==
    /\ pc = "done"
    /\ DesignatedBaseline = N_Baseline
    /\ csv["ece_results_summary_relative.csv"].status = "ok"
    /\ <<"DeiT", "RVL-CDIP">> \in csv["ece_results_summary_relative.csv"].flagged
    /\ SumValues(FoldsOf("ECE", <<"DeiT", "RVL-CDIP">>, N_CW)) > 0

(***************************************************************************)
(* An experiment notebook up to its results_df: set_random_seed, then      *)
(* perform_default_evaluation and combined_results_into_dataframe of       *)
(* src.utils.  Two runs of the notebook on the same inputs are modelled    *)
(* side by side; each run is a process of its own, whose random number     *)
(* generator starts in any state.                                          *)
(***************************************************************************)
Runs == {1, 2}
RANDOM_SEED == 16
Classes == {0, 1}

\* the variants and the metrics the evaluator is configured with
EvalVariants == <<N_Baseline, N_CW>>
EvalMetrics == <<"ECE", "cwECE", "condition", "weak_condition">>

\* the variants whose fit needs every class in the fitting set (one
\* calibrator per class); the uncalibrated baseline fits nothing
FragileVariants == {N_CW}

\* set_random_seed(seed): the generator's state is a function of the seed alone
Seeded(seed) == seed % RngStates

\* the generator after the split has drawn from it
Advance(state) == (state + 1) % RngStates

\* the position of sample i (1..n) in the shuffle the generator state yields
ShufflePosition(i, state, n) == (i - 1 + state) % n

\* a fold assignment that takes the position modulo one more than the fold count
FoldOfOffByOne(i, state, n, folds) == (ShufflePosition(i, state, n) % (folds + 1)) + 1

\* the held-out fold (1..folds) of sample i
FoldOf(i, state, n, folds) == (ShufflePosition(i, state, n) % folds) + 1

\* the Fold Split: the held-out group of every fold, and the fitting set of
\* every fold as the union of the other folds' held-out groups
FoldSplit(state, n, folds) ==
    LET heldout == [f \in 1..folds |-> {i \in 1..n : FoldOf(i, state, n, folds) = f}]
    IN [heldout |-> heldout,
        fitting |-> [f \in 1..folds |-> UNION {heldout[g] : g \in (1..folds) \ {f}}]]

NoSplit == [heldout |-> <<>>, fitting |-> <<>>]

\* a calibrator cannot be fitted on a fitting set that lacks a class
Degenerate(labels, fitting) == \E c \in Classes : \A i \in fitting : labels[i] # c
FitFails(v, labels, fitting) == v \in FragileVariants /\ Degenerate(labels, fitting)

\* the raw results of one variant on one fold, without the diagnostics
VariantResultsNoDiagnostics(v, f, split) ==
    [m \in 1..2 |->
        [variant |-> v, metric |-> EvalMetrics[m], fold |-> f,
         value |-> <<split.fitting[f], split.heldout[f]>>]]

\* the raw results of one variant on one fold: one per metric; a metric value
\* is a function of the fitting-set and held-out data alone
VariantResults(v, f, split) ==
    [m \in 1..Len(EvalMetrics) |->
        [variant |-> v, metric |-> EvalMetrics[m], fold |-> f,
         value |-> <<split.fitting[f], split.heldout[f]>>]]

\* the raw results of fold f: those of every variant whose fit succeeds
FoldResults(f, labels, split) ==
    Concat([k \in 1..Len(EvalVariants) |->
               IF FitFails(EvalVariants[k], labels, split.fitting[f])
               THEN <<>>
               ELSE VariantResults(EvalVariants[k], f, split)])

FoldFailures(f, labels, split) ==
    {<<EvalVariants[k], f>> : k \in {j \in 1..Len(EvalVariants) :
                                       FitFails(EvalVariants[j], labels, split.fitting[f])}}

\* combined_results_into_dataframe(eval_results, model_name, dataset_name)
CombinedResultsIntoDataframe(results, model_name, dataset_name) ==
    [i \in 1..Len(results) |->
        Rec(model_name, dataset_name, "Isotonic", results[i].variant,
            results[i].metric, results[i].fold, results[i].value)]

\* the cell without the call of set_random_seed
ConfigureCellNoSeed(r) ==
    /\ runs[r].pc = "configure"
    /\ runs' = [runs EXCEPT ![r].pc = "evaluate"]
    /\ UNCHANGED <<notebook_vars, stats_vars, gt_labels, cv>>

\* set_random_seed(RANDOM_SEED)
ConfigureCell(r) ==
    /\ runs[r].pc = "configure"
    /\ runs' = [runs EXCEPT ![r].pc = "evaluate", ![r].rng = Seeded(RANDOM_SEED)]
    /\ UNCHANGED <<notebook_vars, stats_vars, gt_labels, cv>>

\* perform_default_evaluation, step 1: the Fold Split is drawn from the generator
SplitFolds(r) ==
    /\ runs[r].pc = "evaluate"
    /\ runs' = [runs EXCEPT ![r].pc = "folds",
                            ![r].split = FoldSplit(runs[r].rng, Len(gt_labels), cv),
                            ![r].rng = Advance(runs[r].rng)]
    /\ UNCHANGED <<notebook_vars, stats_vars, gt_labels, cv>>

\* the evaluation of a fold that gives up the whole run when a fit fails
EvaluateFoldAborting(r, f) ==
    /\ runs[r].pc = "folds"
    /\ f = runs[r].next_fold
    /\ f <= cv
    /\ IF FoldFailures(f, gt_labels, runs[r].split) # {}
       THEN runs' = [runs EXCEPT ![r].pc = "aborted"]
       ELSE runs' = [runs EXCEPT
                        ![r].results = @ \o FoldResults(f, gt_labels, runs[r].split),
                        ![r].next_fold = f + 1]
    /\ UNCHANGED <<notebook_vars, stats_vars, gt_labels, cv>>

\* perform_default_evaluation, steps 2 to 5 for fold f, the folds in order:
\* every variant is fitted and evaluated; a failed fit is recorded against
\* (variant, fold) and the evaluation goes on
EvaluateFold(r, f) ==
    /\ runs[r].pc = "folds"
    /\ f = runs[r].next_fold
    /\ f <= cv
    /\ runs' = [runs EXCEPT
                   ![r].results = @ \o FoldResults(f, gt_labels, runs[r].split),
                   ![r].failures = @ \cup FoldFailures(f, gt_labels, runs[r].split),
                   ![r].next_fold = f + 1]
    /\ UNCHANGED <<notebook_vars, stats_vars, gt_labels, cv>>

\* perform_default_evaluation returns; results_df = combined_results_into_dataframe(...)
DataframeCell(r) ==
    /\ runs[r].pc = "folds"
    /\ runs[r].next_fold > cv
    /\ runs' = [runs EXCEPT
                   ![r].pc = "done",
                   ![r].df = CombinedResultsIntoDataframe(runs[r].results,
                                                          "DeiT", "RVL-CDIP")]
    /\ UNCHANGED <<notebook_vars, stats_vars, gt_labels, cv>>

NextEval ==
    \E r \in Runs :
        \/ ConfigureCell(r)
        \/ SplitFolds(r)
        \/ \E f \in 1..MaxCv : EvaluateFold(r, f)
        \/ DataframeCell(r)

InitEval ==
    /\ pc = "evaluation"
    /\ results_df = <<>>
    /\ reduction_methods_order = <<>>
    /\ err = NoError
    /\ files = <<>>
    /\ charts = NoCharts
    /\ csv = NoCsv
    /\ gt_labels \in SeqsUpTo(Classes, MaxSamples)
    /\ cv \in 2..MaxCv
    /\ \E entropy \in [Runs -> 0..RngStates - 1] :
          runs = [r \in Runs |->
                     [pc |-> "configure", rng |-> entropy[r], split |-> NoSplit,
                      next_fold |-> 1, results |-> <<>>, failures |-> {},
                      df |-> <<>>]]
    /\ output_dir = "deit_rvl_cdip"
    /\ passed = <<>>
    /\ eval_stats = NoStats
    /\ ece_before = NoStats

SpecEval == InitEval /\ [][NextEval]_vars

SplitDone(r) == runs[r].pc \in {"folds", "done", "aborted"}
EvaluationDone(r) == runs[r].pc = "done"

(***************************************************************************)
(* C3: once a run has split its samples, the held-out groups of the cv     *)
(* folds partition the sample indices 1..N (every index in exactly one     *)
(* group, no group holds anything else), and the fitting set of a fold is  *)
(* the set of the indices that are not in the fold.                        *)
(***************************************************************************)
C3_FoldsPartitionSamples ==
    \A r \in DOMAIN runs :
        SplitDone(r) =>
            LET split == runs[r].split
                samples == 1..Len(gt_labels)
            IN /\ DOMAIN split.heldout = 1..cv
               /\ DOMAIN split.fitting = 1..cv
               /\ \A f \in 1..cv : split.heldout[f] \subseteq samples
               /\ \A i \in samples :
                     Cardinality({f \in 1..cv : i \in split.heldout[f]}) = 1
               /\ \A f \in 1..cv : split.fitting[f] = samples \ split.heldout[f]

\* a split of the largest sample count into the largest fold count, with
\* folds of different sizes
C3_Witness ==
    /\ Len(gt_labels) = MaxSamples
    /\ cv = MaxCv
    /\ SplitDone(1)
    /\ \E f, g \in 1..cv :
          Cardinality(runs[1].split.heldout[f]) # Cardinality(runs[1].split.heldout[g])

(***************************************************************************)
(* C4: a run never aborts; when its evaluation is done, every (variant,    *)
(* fold) pair whose fit failed is recorded as failed and has no Result     *)
(* Record, and every other (variant, fold) pair has a Result Record for    *)
(* every metric.                                                           *)
(***************************************************************************)
RecordsOf(r, v, m, f) ==
    {i \in 1..Len(runs[r].df) :
        /\ runs[r].df[i].ReductionMethod = v
        /\ runs[r].df[i].Metric = m
        /\ runs[r].df[i].Fold = f}

FitFailed(r, v, f) ==
    /\ v = N_CW
    /\ \E c \in Classes : \A i \in (1..Len(gt_labels)) \ runs[r].split.heldout[f] :
          gt_labels[i] # c

C4_FitFailureDoesNotAbort ==
    \A r \in DOMAIN runs :
        /\ runs[r].pc # "aborted"
        /\ EvaluationDone(r) =>
              \A k \in 1..Len(EvalVariants) : \A f \in 1..cv :
                 LET v == EvalVariants[k]
                 IN IF FitFailed(r, v, f)
                    THEN /\ <<v, f>> \in runs[r].failures
                         /\ \A m \in 1..Len(EvalMetrics) :
                               RecordsOf(r, v, EvalMetrics[m], f) = {}
                    ELSE /\ <<v, f>> \notin runs[r].failures
                         /\ \A m \in 1..Len(EvalMetrics) :
                               RecordsOf(r, v, EvalMetrics[m], f) # {}

\* a finished run in which a fit failed on one fold and the same variant
\* was evaluated on another fold
C4_Witness ==
    /\ EvaluationDone(1)
    /\ \E f, g \in 1..cv :
          /\ <<N_CW, f>> \in runs[1].failures
          /\ <<N_CW, g>> \notin runs[1].failures
          /\ RecordsOf(1, N_CW, "ECE", g) # {}
          /\ RecordsOf(1, N_Baseline, "ECE", f) # {}

(***************************************************************************)
(* C9: two runs of the notebook with the same seed, labels and fold count  *)
(* have the same Fold Split as soon as both have split, and the same       *)
(* Result Records and recorded failures when both are done.                *)
(***************************************************************************)
C9_SameSeedSameResults ==
    /\ (SplitDone(1) /\ SplitDone(2)) => runs[1].split = runs[2].split
    /\ (EvaluationDone(1) /\ EvaluationDone(2)) =>
          /\ runs[1].df = runs[2].df
          /\ runs[1].failures = runs[2].failures

\* both runs are done and hold Result Records of at least two samples
C9_Witness ==
    /\ EvaluationDone(1) /\ EvaluationDone(2)
    /\ Len(gt_labels) >= 2
    /\ Len(runs[1].df) > 0
    /\ Len(runs[2].df) > 0

(***************************************************************************)
(* C10: a finished run without any fit failure holds exactly one Result    *)
(* Record for every (variant, metric, fold) triple and no other record.    *)
(***************************************************************************)
C10_OneRecordPerTriple ==
    \A r \in DOMAIN runs :
        (EvaluationDone(r) /\ runs[r].failures = {}) =>
            /\ \A k \in 1..Len(EvalVariants) : \A m \in 1..Len(EvalMetrics) :
                  \A f \in 1..cv :
                     Cardinality(RecordsOf(r, EvalVariants[k], EvalMetrics[m], f)) = 1
            /\ Len(runs[r].df) = Len(EvalVariants) * Len(EvalMetrics) * cv

\* a finished run of the largest fold count without fit failure
C10_Witness ==
    /\ EvaluationDone(1)
    /\ runs[1].failures = {}
    /\ cv = MaxCv
    /\ Len(runs[1].df) = Len(EvalVariants) * Len(EvalMetrics) * MaxCv

(***************************************************************************)
(* C11: a written absolute table holds exactly one Summary Record for      *)
(* each (model, dataset, variant) group that has records of the table's    *)
(* metric in results_df, and none for any other group; the record holds    *)
(* the mean and the squared standard deviation of the group's fold values; *)
(* the variant columns are the supplied variant ordering, each variant     *)
(* once.                                                                   *)
(***************************************************************************)
\* the (model, dataset, variant) groups that have records of the metric
PresentGroups(metric) ==
    {<<<<results_df[i].Model, results_df[i].Dataset>>, results_df[i].ReductionMethod>> :
        i \in {k \in 1..Len(results_df) : results_df[k].Metric = metric}}

\* the positions of a variant among the columns of a table
ColumnsOf(table, v) == {i \in 1..Len(table.columns) : table.columns[i] = v}

C11_OneSummaryRecordPerGroup ==
    \A metric \in {"ECE", "cwECE"} :
        LET absolute == csv[AbsoluteFile(metric)]
        IN absolute.status = "ok" =>
              /\ absolute.columns = reduction_methods_order
              /\ \A i, j \in 1..Len(absolute.columns) :
                    absolute.columns[i] = absolute.columns[j] => i = j
              /\ \A x \in PresentGroups(metric) :
                    /\ x[1] \in DOMAIN absolute.rows
                    /\ Cardinality(ColumnsOf(absolute, x[2])) = 1
                    /\ \A i \in ColumnsOf(absolute, x[2]) :
                          LET S == FoldsOf(metric, x[1], x[2])
                          IN /\ absolute.rows[x[1]][i].mean = ExpectedMean(S)
                             /\ absolute.rows[x[1]][i].var = ExpectedVar(S)
              /\ \A g \in DOMAIN absolute.rows : \A i \in 1..Len(absolute.columns) :
                    <<g, absolute.columns[i]>> \in PresentGroups(metric)

\* an absolute ECE table of two variants: the first over two folds of
\* values 0 and 1 (mean 1/2, squared deviation 1/4), the second over one fold
C11_Witness ==
    /\ pc = "done"
    /\ LET absolute == csv["ece_results_summary_absolute.csv"]
       IN /\ absolute.status = "ok"
          /\ absolute.columns = <<N_Baseline, N_CW>>
          /\ absolute.rows[<<"DeiT", "RVL-CDIP">>][1].mean = <<1, 2>>
          /\ absolute.rows[<<"DeiT", "RVL-CDIP">>][1].var = <<1, 4>>
          /\ absolute.rows[<<"DeiT", "RVL-CDIP">>][2].n = 1

(***************************************************************************)
(* C12: in a written relative table, for every group that has records of   *)
(* the unreduced, non-class-wise variant, the baseline the table is        *)
(* relative to (the first variant of its ordering) is that variant, and    *)
(* the entry of that variant is absent (flagged) or exactly 0.             *)
(***************************************************************************)
\* the variants that are neither reduced nor class-wise
UnreducedNonClassWise == {N_Baseline}

C13_RelativeRoundTrip ==
    \A metric \in {"ECE", "cwECE"} :
        LET absolute == csv[AbsoluteFile(metric)]
            relative == csv[RelativeFile(metric)]
        IN (absolute.status = "ok" /\ relative.status = "ok") =>
              \A g \in DOMAIN absolute.rows : \A i \in 1..Len(absolute.columns) :
                 LET bm == absolute.rows[g][1].mean
                 IN bm # RZero =>
                       /\ g \in DOMAIN relative.rows
                       /\ relative.columns = absolute.columns
                       /\ "mean" \in DOMAIN relative.rows[g][i]
                       /\ RMul(bm, RAdd(RInt(1), RDiv(relative.rows[g][i].mean, RInt(100))))
                             = absolute.rows[g][i].mean

\* baseline mean 1/2 over two folds, the other variant at mean 1: its
\* relative entry is +100 and 1/2 * (1 + 100/100) = 1
C13_Witness ==
    /\ pc = "done"
    /\ LET absolute == csv["ece_results_summary_absolute.csv"]
           relative == csv["ece_results_summary_relative.csv"]
           g == <<"DeiT", "RVL-CDIP">>
       IN /\ absolute.status = "ok" /\ relative.status = "ok"
          /\ Len(absolute.columns) = 2
          /\ absolute.rows[g][1].mean = <<1, 2>>
          /\ absolute.rows[g][2].mean = RInt(1)
          /\ relative.rows[g][2].mean = RInt(100)

(***************************************************************************)
(* C14: aggregating again the mean of any Summary Record of a written      *)
(* absolute table, as the value of a single fold, gives a Summary Record   *)
(* over one fold with the same mean and a standard deviation of 0.         *)
(***************************************************************************)
C14_AggregatorIdempotent ==
    \A metric \in {"ECE", "cwECE"} :
        LET absolute == csv[AbsoluteFile(metric)]
        IN absolute.status = "ok" =>
              \A g \in DOMAIN absolute.rows : \A i \in 1..Len(absolute.columns) :
                 LET again == SummaryRecord(<<absolute.rows[g][i].mean>>)
                 IN /\ again.n = 1
                    /\ again.mean = absolute.rows[g][i].mean
                    /\ again.var = RZero

\* a Summary Record over two folds with mean 1/2 and a standard deviation
\* that is not 0, which aggregates again to mean 1/2 and deviation 0
C14_Witness ==
    /\ pc = "done"
    /\ LET absolute == csv["ece_results_summary_absolute.csv"]
           g == <<"DeiT", "RVL-CDIP">>
       IN /\ absolute.status = "ok"
          /\ Len(absolute.columns) = 2
          /\ absolute.rows[g][2].n = 2
          /\ absolute.rows[g][2].mean = <<1, 2>>
          /\ absolute.rows[g][2].var # RZero
          /\ SummaryRecord(<<absolute.rows[g][2].mean>>).var = RZero

ExperimentNotebooks == {"deit_rvl_cdip", "distilbert_imdb", "random_forest_synthetic",
                        "lightgbm_sorel20m", "resnet56_cifar10"}

MaxExperimentRows == 2
MaxImbalancedRows == 1
MaxRerunRows == 3

\* the Result Records the evaluation of an experiment can have produced
ExperimentResults(dir) ==
    IF dir = "deit_rvl_cdip"
    THEN {Rec("DeiT", "RVL-CDIP", "Isotonic", N_Baseline, "ECE", 0, 1),
          Rec("DeiT", "RVL-CDIP", "Isotonic", N_CW, "ECE", 0, 2),
          Rec("DeiT", "RVL-CDIP", "Isotonic", N_Baseline, "condition", 0, 1),
          Rec("DeiT", "RVL-CDIP", "Isotonic", N_CW, "weak_condition", 0, 0)}
    ELSE IF dir = "distilbert_imdb"
    THEN {Rec("DistilBERT", "IMDB", "Isotonic", N_Baseline, "ECE", 0, 1),
          Rec("DistilBERT", "IMDB", "Isotonic", N_Baseline, "condition", 0, 1)}
    ELSE IF dir = "lightgbm_sorel20m"
    THEN {Rec("LightGBM", "SOREL20M", "Isotonic", N_Baseline, "ECE", 0, 1),
          Rec("LightGBM", "SOREL20M", "Isotonic", N_Baseline, "weak_condition", 0, 1)}
    ELSE IF dir = "resnet56_cifar10"
    THEN {Rec("ResNet56", "CIFAR10", "Isotonic", N_Baseline, "ECE", 0, 1),
          Rec("ResNet56", "CIFAR10", "Isotonic", N_CW, "condition", 0, 1)}
    ELSE {Rec("Random Forest", "Synthetic Balanced", "Isotonic", N_Baseline, "ECE", 0, 1),
          Rec("Random Forest", "Synthetic Balanced", "TemperatureScaling", N_Baseline,
              "ECE", 0, 2),
          Rec("Random Forest", "Synthetic Balanced", "Isotonic", N_Baseline,
              "condition", 0, 1)}

\* rf_imbalanced_results_df of the random forest notebook
ImbalancedResults ==
    {Rec("Random Forest", "Synthetic Imbalanced", "Isotonic", N_Baseline, "ECE", 0, 3),
     Rec("Random Forest", "Synthetic Imbalanced", "Isotonic", N_Baseline,
         "weak_condition", 0, 1)}

\* what the save cell concatenates to the records evaluated first
LaterResults(dir) ==
    IF dir = "random_forest_synthetic"
    THEN SeqsUpTo(ImbalancedResults, MaxImbalancedRows)
    ELSE {<<>>}

\* the plot calls of the plot cell of an experiment notebook, in call order
ExperimentPlots(dir) ==
    IF dir = "random_forest_synthetic"
    THEN <<[slice |-> "balanced", file |-> "evaluation_ECE_rf_balanced.eps"],
           [slice |-> "imbalanced", file |-> "evaluation_ECE_rf_balanced.eps"],
           [slice |-> "temperature_scaling",
            file |-> "evaluation_ECE_rf_temperature_scaling.eps"]>>
    ELSE IF dir = "deit_rvl_cdip"
    THEN <<[slice |-> "all", file |-> "evaluation_ECE_deit_rvl_cdip.eps"]>>
    ELSE IF dir = "distilbert_imdb"
    THEN <<[slice |-> "all", file |-> "evaluation_ECE_distilbert_imdb.eps"]>>
    ELSE IF dir = "lightgbm_sorel20m"
    THEN <<[slice |-> "all", file |-> "evaluation_ECE_lightgbm_sorel20m.eps"]>>
    ELSE <<[slice |-> "all", file |-> "evaluation_ECE_resnet56_cifar10.eps"]>>

\* results_df.to_csv(output_file, sep=";", index=False): results.csv of the
\* output directory is replaced by the rows of the table
ToCsv(df, disk, dir) ==
    [d \in DOMAIN disk \cup {dir} |-> IF d = dir THEN df ELSE disk[d]]

\* the save cell
SaveCell ==
    /\ pc = "ordered"
    /\ output_dir \in ExperimentNotebooks
    /\ \E later \in LaterResults(output_dir) :
          LET df == Concat(<<results_df, later>>)
          IN /\ results_df' = df
             /\ files' = ToCsv(df, files, output_dir)
    /\ pc' = "plots"
    /\ UNCHANGED <<evaluator_vars, stats_vars, output_dir, passed,
                   reduction_methods_order, err, charts, csv>>

\* the plot calls of a cell, one after the other, each on its query of df
RECURSIVE WriteCharts(_, _, _)
WriteCharts(ch, plots, df) ==
    IF plots = <<>> THEN ch
    ELSE LET k == Len(plots)
         IN WriteChart(WriteCharts(ch, SubSeq(plots, 1, k - 1), df),
                       plots[k].file, plots[k].slice, Slice(plots[k].slice, df))

\* the results_df that is saved, without the diagnostic filter of the plot cell
PlotsUnfiltered(df) == df

\* results_df = results_df.query("(Metric != 'condition') & (Metric != 'weak_condition')")
PlotsFiltered(df) == Rows(df, [i \in 1..Len(df) |-> NotDiagnostic(df[i])])

\* the plot cell: the diagnostic filter, then the plot calls
PlotsCell ==
    /\ pc = "plots"
    /\ results_df' = PlotsFiltered(results_df)
    /\ charts' = WriteCharts(charts, ExperimentPlots(output_dir), results_df')
    /\ pc' = "done"
    /\ UNCHANGED <<evaluator_vars, stats_vars, output_dir, passed,
                   reduction_methods_order, err, files, csv>>

NextExperiment ==
    \/ OrderCell
    \/ SaveCell
    \/ PlotsCell

(***************************************************************************)
(* Any notebook run in an output directory that can hold the files of an   *)
(* earlier, completed run: an experiment notebook from its ordering cell   *)
(* on, or the combined notebook from its load cell on                      *)
(***************************************************************************)
\* results.csv as an earlier run of the experiment left it
PreviousResults(dir) ==
    LET any == CHOOSE r \in ExperimentResults(dir) : r.Metric = "ECE"
    IN <<[any EXCEPT !.Value = 9]>>

\* a summary table as an earlier run of the combined notebook left it
PreviousTable ==
    [status |-> "ok", columns |-> <<N_Baseline>>,
     rows |-> [g \in {<<"DeiT", "RVL-CDIP">>} |->
                 <<[mean |-> RInt(9), var |-> RZero, n |-> 1]>>]]

PreviousCsv == [f \in SummaryFiles |-> PreviousTable]

\* the rows the results file read by the combined notebook can hold
RerunRows ==
    {Rec("DeiT", "RVL-CDIP", "Isotonic", N_Baseline, "ECE", 0, 1),
     Rec("DeiT", "RVL-CDIP", "Isotonic", N_CW, "ECE", 0, 2),
     Rec("DeiT", "RVL-CDIP", "Isotonic", N_Baseline, "cwECE", 0, 1),
     Rec("DeiT", "RVL-CDIP", "Isotonic", N_CW, "cwECE", 0, 2)}

InitExperiment ==
    /\ pc = "order"
    /\ output_dir \in ExperimentNotebooks
    /\ results_df \in SeqsUpTo(ExperimentResults(output_dir), MaxExperimentRows)
    /\ reduction_methods_order = <<>>
    /\ err = NoError
    /\ files \in {<<>>, [d \in {output_dir} |-> PreviousResults(output_dir)]}
    /\ charts = NoCharts
    /\ csv = NoCsv
    /\ gt_labels = <<>>
    /\ cv = 0
    /\ runs = <<>>
    /\ passed = <<>>
    /\ eval_stats = NoStats
    /\ ece_before = NoStats

InitRerun ==
    /\ pc = "load"
    /\ output_dir = "combined_results"
    /\ results_df = <<>>
    /\ reduction_methods_order = <<>>
    /\ err = NoError
    /\ \E rows \in SeqsUpTo(RerunRows, MaxRerunRows) :
          files = [d \in {"deit_rvl_cdip"} |-> rows]
    /\ charts = NoCharts
    /\ csv \in {NoCsv, PreviousCsv}
    /\ gt_labels = <<>>
    /\ cv = 0
    /\ runs = <<>>
    /\ passed = <<>>
    /\ eval_stats = NoStats
    /\ ece_before = NoStats

InitNotebooks == InitExperiment \/ InitRerun

NextNotebooks == NextCombined \/ NextExperiment

SpecNotebooks == InitNotebooks /\ [][NextNotebooks]_vars

(***************************************************************************)
(* C16: every CSV on disk is, at any time, what an earlier run left or a   *)
(* table (a results.csv) this run wrote to its end, never a part of one;   *)
(* when the notebook has stopped on an exception, the CSVs it completed    *)
(* before hold what it wrote, and the CSVs of the failing cell and of the  *)
(* cells behind it are as the earlier run left them.                       *)
(***************************************************************************)
\* the table the combined notebook writes to a summary file from its results_df
ThisRunTable(f) ==
    IF f = AbsoluteFile(TableMetric(f))
    THEN AbsoluteSummary(MetricSlice(results_df, TableMetric(f)), reduction_methods_order)
    ELSE RelativeSummary(MetricSlice(results_df, TableMetric(f)), reduction_methods_order)

\* the summary files are as an earlier run left them
AsLeft(F) == \/ \A f \in F : csv[f] = Absent
             \/ \A f \in F : csv[f] = PreviousTable

ECEFiles == {"ece_results_summary_absolute.csv", "ece_results_summary_relative.csv"}

MaxMalformedRows == 1

\* the columns the filter cell reads by name
ExpectedColumns == {"Metric", "ReductionMethod"}

\* the rows of a results file written without some columns
Without(rows, columns) ==
    [i \in 1..Len(rows) |-> [c \in DOMAIN rows[i] \ columns |-> rows[i][c]]]

MalformedFileRows(dir) ==
    IF dir = "deit_rvl_cdip"
    THEN {Rec("DeiT", "RVL-CDIP", "Isotonic", N_Baseline, "ECE", 0, 1),
          Rec("DeiT", "RVL-CDIP", "Isotonic", N_Baseline, "cwECE", 0, 1),
          Rec("DeiT", "RVL-CDIP", "Isotonic", N_Baseline, "condition", 0, 1)}
    ELSE {Rec("DistilBERT", "IMDB", "Isotonic", N_Baseline, "ECE", 0, 2),
          Rec("DistilBERT", "IMDB", "Isotonic", N_Baseline, "cwECE", 0, 2),
          Rec("DistilBERT", "IMDB", "Isotonic", N_CWweighted, "ECE", 0, 1)}

InitMalformed ==
    /\ pc = "load"
    /\ output_dir = "combined_results"
    /\ results_df = <<>>
    /\ reduction_methods_order = <<>>
    /\ err = NoError
    /\ \E lacking \in [ExperimentDirs -> {{}, {"Metric"}, {"ReductionMethod"}}],
          rows \in [ExperimentDirs ->
                      UNION {SeqsUpTo(MalformedFileRows(d), MaxMalformedRows) :
                                d \in ExperimentDirs}] :
          /\ \A d \in ExperimentDirs :
                rows[d] \in SeqsUpTo(MalformedFileRows(d), MaxMalformedRows)
          /\ files = [d \in ExperimentDirs |-> Without(rows[d], lacking[d])]
    /\ charts = NoCharts
    /\ csv = NoCsv
    /\ gt_labels = <<>>
    /\ cv = 0
    /\ runs = <<>>
    /\ passed = <<>>
    /\ eval_stats = NoStats
    /\ ece_before = NoStats

SpecMalformed == InitMalformed /\ [][NextCombined]_vars

(***************************************************************************)
(* C17: when a results file that was read lacks an expected column, the    *)
(* notebook does not get past its filter cell: it has stopped with an      *)
(* error that names a file lacking a column.                               *)
(***************************************************************************)
\* the files read that lack an expected column
OffendingFiles ==
    {d \in DOMAIN files :
        files[d] # <<>> /\ ~(ExpectedColumns \subseteq Columns(files[d]))}

C17_MissingColumnNamesTheFile ==
    (OffendingFiles # {} /\ pc \notin {"load", "filter"}) =>
        /\ pc = "stopped"
        /\ "file" \in DOMAIN err
        /\ err.file \in OffendingFiles

(***************************************************************************)
(* The cell that makes the EvalStats object of an experiment notebook and  *)
(* logs the Expected Calibration Error before calibration.  The confidence *)
(* matrix has two classes; its entries are multiples of 1/ConfidenceSteps. *)
(***************************************************************************)
ConfidenceSteps == 4
MaxEceSamples == 3
MaxBins == 3

\* bins=25 of the notebooks
EVAL_BINS == 25

\* the rows a row-stochastic confidence matrix of two classes can have
ConfidenceRows ==
    {<<RNorm(k, ConfidenceSteps), RNorm(ConfidenceSteps - k, ConfidenceSteps)>> :
        k \in 0..ConfidenceSteps}

RLess(p, q) == p[1] * q[2] < q[1] * p[2]
RAbs(p) == <<Abs(p[1]), p[2]>>

\* the confidence of the first class, whichever class is predicted
FirstClassConfidence(row) == row[1]

\* the confidence of the predicted class: the largest entry of the row
MaxConfidence(row) == IF RLess(row[1], row[2]) THEN row[2] ELSE row[1]

\* the predicted class, argmax: the first of the largest entries
Prediction(row) == IF RLess(row[1], row[2]) THEN 1 ELSE 0

\* the bin of a confidence among equal-width bins 1..bins over [0, 1]
BinOf(c, bins) ==
    IF c[1] >= c[2] THEN bins ELSE ((c[1] * bins) \div c[2]) + 1

\* EvalStats.expected_calibration_error(): the weighted average over the bins
\* of |mean confidence of the predicted class - accuracy| in the bin
ExpectedCalibrationError(stats) ==
    LET n == Len(stats.y_true)
        conf(i) == MaxConfidence(stats.confidences[i])
        members(b) == {i \in 1..n : BinOf(conf(i), stats.bins) = b}
        hits(b) == {i \in members(b) : Prediction(stats.confidences[i]) = stats.y_true[i]}
        confidence(b) ==
            RDiv(RSum([i \in 1..n |-> IF i \in members(b) THEN conf(i) ELSE RZero]),
                 RInt(Cardinality(members(b))))
        accuracy(b) == RNorm(Cardinality(hits(b)), Cardinality(members(b)))
        term(b) == IF members(b) = {} THEN RZero
                   ELSE RMul(RNorm(Cardinality(members(b)), n),
                             RAbs(RSub(confidence(b), accuracy(b))))
    IN RSum([b \in 1..stats.bins |-> term(b)])

\* eval_stats = EvalStats(y_true, uncalibrated_confidences, bins=...), then
\* the log of eval_stats.expected_calibration_error()
EvalStatsCell ==
    /\ pc = "eval_stats"
    /\ \E uncalibrated_confidences \in [1..Len(gt_labels) -> ConfidenceRows],
          bins \in 1..MaxBins \cup {EVAL_BINS} :
          LET stats == [status |-> "made", y_true |-> gt_labels,
                        confidences |-> uncalibrated_confidences, bins |-> bins]
          IN /\ eval_stats' = stats
             /\ ece_before' = ExpectedCalibrationError(stats)
    /\ pc' = "recalibration"
    /\ UNCHANGED <<notebook_vars_but_pc, evaluator_vars>>

InitECE ==
    /\ pc = "eval_stats"
    /\ output_dir = "deit_rvl_cdip"
    /\ results_df = <<>>
    /\ reduction_methods_order = <<>>
    /\ err = NoError
    /\ files = <<>>
    /\ charts = NoCharts
    /\ csv = NoCsv
    /\ gt_labels \in SeqsUpTo(Classes, MaxEceSamples) \ {<<>>}
    /\ cv = 0
    /\ runs = <<>>
    /\ passed = <<>>
    /\ eval_stats = NoStats
    /\ ece_before = NoStats

NextECE == EvalStatsCell

SpecECE == InitECE /\ [][NextECE]_vars

(***************************************************************************)
(* C18: when, in every non-empty bin, the mean of the samples' largest     *)
(* confidence equals the share of the samples of the bin whose predicted   *)
(* class is their label, the Expected Calibration Error is 0; for every    *)
(* confidence matrix and every number of bins.                             *)
(***************************************************************************)
\* the larger confidence of sample i
TopConfidence(i) ==
    LET row == eval_stats.confidences[i]
    IN IF row[1][1] * row[2][2] >= row[2][1] * row[1][2] THEN row[1] ELSE row[2]

\* sample i is classified as its label says
Correct(i) ==
    LET row == eval_stats.confidences[i]
    IN eval_stats.y_true[i] = (IF row[2][1] * row[1][2] > row[1][1] * row[2][2] THEN 1 ELSE 0)

\* the samples of bin b: (b - 1) / bins <= confidence < b / bins, and
\* confidence 1 in the last bin
BinSamples(b) ==
    {i \in 1..Len(eval_stats.y_true) :
        LET c == TopConfidence(i)
        IN /\ (b - 1) * c[2] <= c[1] * eval_stats.bins
           /\ c[1] * eval_stats.bins < b * c[2] \/ b = eval_stats.bins}

RECURSIVE SumTop(_)
SumTop(S) ==
    IF S = {} THEN RZero
    ELSE LET i == CHOOSE k \in S : TRUE IN RAdd(TopConfidence(i), SumTop(S \ {i}))

\* every non-empty bin: mean confidence = accuracy
BinsCalibrated ==
    \A b \in 1..eval_stats.bins :
        SumTop(BinSamples(b)) = RInt(Cardinality({i \in BinSamples(b) : Correct(i)}))

C18_CalibratedBinsGiveZeroECE ==
    (pc = "recalibration" /\ BinsCalibrated) => ece_before = RZero

\* three samples in two non-empty bins of three: two of confidence 1/2, one
\* of them classified wrongly, and one of confidence 1 classified correctly
C18_Witness ==
    /\ pc = "recalibration"
    /\ eval_stats.bins = 3
    /\ Len(eval_stats.y_true) = 3
    /\ BinSamples(2) # {} /\ BinSamples(3) # {}
    /\ \E i \in BinSamples(2) : ~Correct(i)
    /\ BinsCalibrated
    /\ ece_before = RZero

(***************************************************************************)
(* C19: in an experiment notebook, results.csv is written from results_df  *)
(* before the diagnostic filter and before any plot, so it holds every     *)
(* record of the evaluation, those with Metric 'condition' or              *)
(* 'weak_condition' included; results_df after the plot cell is the saved  *)
(* file without those records; and no record with such a Metric is in the  *)
(* rows passed to a plot or to a summary function, in any notebook.        *)
(***************************************************************************)
Diagnostics(df) == {i \in 1..Len(df) : df[i].Metric \in {"condition", "weak_condition"}}

C19_DiagnosticsSavedNotPlotted ==
    /\ output_dir \in ExperimentNotebooks =>
          /\ pc \in {"order", "ordered"} => charts = NoCharts
          /\ pc = "plots" =>
                /\ charts = NoCharts
                /\ output_dir \in DOMAIN files
                /\ files[output_dir] = results_df
          /\ pc = "done" =>
                /\ output_dir \in DOMAIN files
                /\ Len(files[output_dir])
                      = Len(results_df) + Cardinality(Diagnostics(files[output_dir]))
                /\ \A i \in 1..Len(files[output_dir]) :
                      TimesIn(results_df, files[output_dir][i]) =
                         IF i \in Diagnostics(files[output_dir]) THEN 0
                         ELSE TimesIn(files[output_dir], files[output_dir][i])
                /\ DOMAIN charts # {}
          /\ csv = NoCsv
    /\ \A f \in DOMAIN charts : Diagnostics(charts[f].df) = {}
    /\ \A k \in 1..Len(passed) : Diagnostics(passed[k].input) = {}

\* the DeiT notebook has finished: results.csv holds a 'condition' record
\* and an ECE record, the chart was plotted from the ECE record alone
C19_Witness ==
    /\ pc = "done"
    /\ output_dir = "deit_rvl_cdip"
    /\ \E i \in 1..Len(files[output_dir]) : files[output_dir][i].Metric = "condition"
    /\ Len(results_df) = 1
    /\ charts["evaluation_ECE_deit_rvl_cdip.eps"].df = results_df

(***************************************************************************)
(* C20: when a notebook has finished, it has written as many distinct      *)
(* chart files as it has plotted slices, and the chart file of every slice *)
(* it plotted holds the chart of that slice.                               *)
(***************************************************************************)
\* the plot calls a notebook has made when it has finished
PlotsMade ==
    IF output_dir = "combined_results"
    THEN [k \in 1..Len(PlotFiles) |-> [slice |-> PlotSlices[k], file |-> PlotFiles[k]]]
    ELSE ExperimentPlots(output_dir)

C20_OneChartFilePerSlice ==
    pc = "done" =>
        /\ Cardinality(DOMAIN charts) = Len(PlotsMade)
        /\ \A k \in 1..Len(PlotsMade) :
              /\ PlotsMade[k].file \in DOMAIN charts
              /\ charts[PlotsMade[k].file].slice = PlotsMade[k].slice

(***************************************************************************)
(* The folds of perform_default_evaluation evaluated by workers: after the *)
(* Fold Split any fold that has not been started may be started, folds     *)
(* that are started finish in any order, and the evaluation returns when   *)
(* every fold has finished.  Run 1 evaluates its folds one after the other *)
(* in the order 1..cv, run 2 hands them to workers.                        *)
(***************************************************************************)

\* a worker takes fold f: it is handed the fold's fitting-set and held-out data
StartFold(r, f) ==
    /\ runs[r].pc = "folds"
    /\ f \in (1..cv) \ runs[r].started
    /\ runs' = [runs EXCEPT ![r].started = @ \cup {f}]
    /\ UNCHANGED <<notebook_vars, stats_vars, gt_labels, cv>>

\* a worker whose calibrators are shared with the folds that finished before:
\* they have also been fitted on the fitting sets of those folds
FinishFoldSharedCalibrators(r, f) ==
    /\ runs[r].pc = "folds"
    /\ f \in runs[r].started \ runs[r].finished
    /\ LET own == FoldResults(f, gt_labels, runs[r].split)
           seen == [i \in 1..Len(own) |->
                       [own[i] EXCEPT !.value = <<@[1] \cup UNION {runs[r].split.fitting[g] :
                                                       g \in runs[r].finished}, @[2]>>]]
       IN runs' = [runs EXCEPT
                      ![r].results = @ \o seen,
                      ![r].failures = @ \cup FoldFailures(f, gt_labels, runs[r].split),
                      ![r].finished = @ \cup {f},
                      ![r].next_fold = @ + 1]
    /\ UNCHANGED <<notebook_vars, stats_vars, gt_labels, cv>>

\* the worker of fold f finishes: the fold's raw results and failed fits are
\* gathered (steps 2 to 5 for fold f); next_fold counts the folds gathered
FinishFold(r, f) ==
    /\ runs[r].pc = "folds"
    /\ f \in runs[r].started \ runs[r].finished
    /\ runs' = [runs EXCEPT
                   ![r].results = @ \o FoldResults(f, gt_labels, runs[r].split),
                   ![r].failures = @ \cup FoldFailures(f, gt_labels, runs[r].split),
                   ![r].finished = @ \cup {f},
                   ![r].next_fold = @ + 1]
    /\ UNCHANGED <<notebook_vars, stats_vars, gt_labels, cv>>

NextFolds ==
    \/ \E r \in Runs :
          \/ ConfigureCell(r)
          \/ SplitFolds(r)
          \/ DataframeCell(r)
    \/ \E f \in 1..MaxCv :
          \/ EvaluateFold(1, f)
          \/ StartFold(2, f)
          \/ FinishFold(2, f)

\* two evaluations of the same confidences and labels (the labels of the
\* largest sample counts), no fold evaluated or started
InitFolds ==
    /\ pc = "evaluation"
    /\ results_df = <<>>
    /\ reduction_methods_order = <<>>
    /\ err = NoError
    /\ files = <<>>
    /\ charts = NoCharts
    /\ csv = NoCsv
    /\ gt_labels \in SeqsUpTo(Classes, MaxSamples)
    /\ Len(gt_labels) >= MaxSamples - 1
    /\ cv \in 2..MaxCv
    /\ \E entropy \in [Runs -> 0..RngStates - 1] :
          runs = [r \in Runs |->
                     [pc |-> "configure", rng |-> entropy[r], split |-> NoSplit,
                      next_fold |-> 1, results |-> <<>>, failures |-> {},
                      df |-> <<>>, started |-> {}, finished |-> {}]]
    /\ output_dir = "resnet56_cifar10"
    /\ passed = <<>>
    /\ eval_stats = NoStats
    /\ ece_before = NoStats

SpecFolds == InitFolds /\ [][NextFolds]_vars

(***************************************************************************)
(* C21: in whatever order and interleaving the workers finish the folds, a *)
(* fold that a worker has finished has the Result Records the sequential   *)
(* evaluation gives it (they do not depend on the folds that finished      *)
(* before it), and when both evaluations are done they hold the same set   *)
(* of Result Records and the same failed fits.                             *)
(***************************************************************************)
RecordsOfFold(r, f) ==
    {runs[r].results[i] : i \in {j \in 1..Len(runs[r].results) :
                                    runs[r].results[j].fold = f}}

RecordSet(df) == {df[i] : i \in 1..Len(df)}

PerformDefaultEvaluation(state, labels, folds) ==
    Concat([f \in 1..folds |-> FoldResults(f, labels, FoldSplit(state, Len(labels), folds))])

\* balanced_eval_results = perform_default_evaluation(balanced_confs, balanced_gt)
BalancedEvaluationCell(r) ==
    /\ runs[r].pc = "evaluate"
    /\ IF runs[r].with_balanced
       THEN runs' = [runs EXCEPT
                        ![r].pc = "imbalanced",
                        ![r].balanced_df =
                            CombinedResultsIntoDataframe(
                                PerformDefaultEvaluation(runs[r].rng, runs[r].balanced_gt, cv),
                                "Random Forest", "Synthetic Balanced"),
                        ![r].rng = Advance(runs[r].rng)]
       ELSE runs' = [runs EXCEPT ![r].pc = "imbalanced"]
    /\ UNCHANGED <<notebook_vars, stats_vars, gt_labels, cv>>

\* imbalanced_eval_results = perform_default_evaluation(imbalanced_confs, imbalanced_gt)
ImbalancedEvaluationCell(r) ==
    /\ runs[r].pc = "imbalanced"
    /\ runs' = [runs EXCEPT
                   ![r].pc = "done",
                   ![r].split = FoldSplit(runs[r].rng, Len(gt_labels), cv),
                   ![r].df =
                       CombinedResultsIntoDataframe(
                           PerformDefaultEvaluation(runs[r].rng, gt_labels, cv),
                           "Random Forest", "Synthetic Imbalanced"),
                   ![r].rng = Advance(runs[r].rng)]
    /\ UNCHANGED <<notebook_vars, stats_vars, gt_labels, cv>>

NextForest ==
    \E r \in Runs :
        \/ ConfigureCell(r)
        \/ BalancedEvaluationCell(r)
        \/ ImbalancedEvaluationCell(r)

\* gt_labels are the labels of the imbalanced dataset; both datasets are
\* made before either evaluation
InitForest ==
    /\ pc = "evaluation"
    /\ results_df = <<>>
    /\ reduction_methods_order = <<>>
    /\ err = NoError
    /\ files = <<>>
    /\ charts = NoCharts
    /\ csv = NoCsv
    /\ gt_labels \in SeqsUpTo(Classes, MaxSamples)
    /\ Len(gt_labels) >= 2
    /\ cv \in 2..MaxCv
    /\ \E entropy \in [Runs -> 0..RngStates - 1], balanced \in SeqsUpTo(Classes, 2) :
          /\ Len(balanced) = 2
          /\ runs = [r \in Runs |->
                        [pc |-> "configure", rng |-> entropy[r], split |-> NoSplit,
                         with_balanced |-> (r = 1), balanced_gt |-> balanced,
                         balanced_df |-> <<>>, df |-> <<>>]]
    /\ output_dir = "random_forest_synthetic"
    /\ passed = <<>>
    /\ eval_stats = NoStats
    /\ ece_before = NoStats

SpecForest == InitForest /\ [][NextForest]_vars

Cell(kind, uses, binds, calls) ==
    [kind |-> kind, uses |-> uses, binds |-> binds, calls |-> calls]

\* EvalStats(data, ..., bins=) or perform_default_evaluation(gt_labels=data,
\* cv=, bins=): a keyword argument is <<value>>, or <<>> when the call omits it
Call(function, data, cv_argument, bins_argument) ==
    [function |-> function, data |-> data, cv |-> cv_argument, bins |-> bins_argument]

\* the code cells of the DeiT notebook (part_000) down to its last evaluation cell, without the ordering cell
DeiTCells ==
    <<
      \* lines 456-456
      Cell("plain", <<>>, {}, <<>>),
      \* lines 493-505
      Cell("plain", <<>>, {"AutoFeatureExtractor", "AutoModelForImageClassification",
           "DataLoader", "EvalStats", "List", "Path", "accuracy_score", "logging",
           "np", "os", "sys", "torch", "tqdm"}, <<>>),
      \* lines 522-524
      Cell("plain", <<"Path", "sys", "os">>, {"current_working_directory"}, <<>>),
      \* lines 533-543
      Cell("plain", <<>>, {"DATA_DIR", "OUTPUT_DIR", "RANDOM_SEED", "RVLCDIPDataset",
           "combined_results_into_dataframe", "configure_plots", "download_rvl_cdip",
           "open_image", "perform_default_evaluation",
           "plot_evaluation_results_from_dataframe", "set_random_seed"}, <<>>),
      \* lines 560-570
      Cell("plain", <<"OUTPUT_DIR", "DATA_DIR">>, {"features_array_file",
           "images_dir", "labels_dir", "output_dir", "output_file", "rvl_cdip_dir",
           "test_labels_file", "training_labels_file", "validation_labels_file"},
           <<>>),
      \* lines 579-600
      Cell("plain", <<>>, {"batch_size", "idx2label", "label2idx", "model_name",
           "n_classes"}, <<>>),
      \* lines 617-621
      Cell("plain", <<"set_random_seed", "RANDOM_SEED", "configure_plots",
           "logging">>, {"logger"}, <<>>),
      \* lines 638-638
      Cell("plain", <<"download_rvl_cdip", "rvl_cdip_dir">>, {}, <<>>),
      \* lines 647-689
      Cell("plain", <<"test_labels_file", "validation_labels_file", "tqdm",
           "images_dir", "open_image", "os", "AutoFeatureExtractor", "model_name",
           "np", "features_array_file", "RVLCDIPDataset", "DataLoader",
           "batch_size">>, {"dataloader", "dataset", "f", "feature_extractor",
           "features_array", "i", "image", "image_file", "image_path", "images",
           "label", "label_file", "labels", "line", "lines", "relative_image_path",
           "x"}, <<>>),
      \* lines 706-708
      Cell("plain", <<"AutoModelForImageClassification", "model_name">>, {"model"},
           <<>>),
      \* lines 725-741
      Cell("plain", <<"logger", "tqdm", "dataloader", "torch", "model", "np">>,
           {"batch", "confidences", "features", "labels", "logits", "predictions",
           "uncalibrated_confidences", "y_true"}, <<>>),
      \* lines 750-752
      Cell("plain", <<"np", "uncalibrated_confidences", "accuracy_score", "y_true",
           "logger">>, {"model_accuracy", "y_pred"}, <<>>),
      \* lines 761-762
      Cell("stats", <<"EvalStats", "y_true", "uncalibrated_confidences", "logger">>,
           {"eval_stats"}, <<Call("EvalStats", "y_true", <<>>, <<25>>)>>),
      \* lines 788-799
      Cell("evaluation", <<"logger", "perform_default_evaluation",
           "uncalibrated_confidences", "y_true", "combined_results_into_dataframe">>,
           {"eval_results", "results_df"}, <<Call("perform_default_evaluation",
           "y_true", <<>>, <<>>)>>)
    >>

\* the code cells of the DistilBERT notebook (part_001) down to its last evaluation cell, without the ordering cell
DistilBERTCells ==
    <<
      \* lines 9-9
      Cell("plain", <<>>, {}, <<>>),
      \* lines 48-62
      Cell("plain", <<>>, {"DataLoader", "DistilBertForSequenceClassification",
           "DistilBertTokenizer", "EvalStats", "F", "List", "Path", "accuracy_score",
           "logging", "np", "os", "sys", "torch", "torchtext", "tqdm"}, <<>>),
      \* lines 79-81
      Cell("plain", <<"Path", "sys", "os">>, {"current_working_directory"}, <<>>),
      \* lines 90-97
      Cell("plain", <<>>, {"DATA_DIR", "OUTPUT_DIR", "RANDOM_SEED",
           "combined_results_into_dataframe", "configure_plots",
           "perform_default_evaluation", "plot_evaluation_results_from_dataframe",
           "set_random_seed"}, <<>>),
      \* lines 114-118
      Cell("plain", <<"OUTPUT_DIR", "DATA_DIR">>, {"imdb_dir", "output_dir",
           "output_file"}, <<>>),
      \* lines 127-130
      Cell("plain", <<>>, {"batch_size", "classes", "model_name", "n_classes"}, <<>>),
      \* lines 139-139
      Cell("plain", <<"torch">>, {"device"}, <<>>),
      \* lines 156-160
      Cell("plain", <<"set_random_seed", "RANDOM_SEED", "configure_plots",
           "logging">>, {"logger"}, <<>>),
      \* lines 177-186
      Cell("plain", <<"DistilBertTokenizer", "model_name", "torchtext", "os",
           "imdb_dir", "batch_size", "DataLoader">>, {"dataloader", "datapipe",
           "tokenizer"}, <<>>),
      \* lines 203-205
      Cell("plain", <<"DistilBertForSequenceClassification", "model_name", "device">>,
           {"model"}, <<>>),
      \* lines 222-238
      Cell("plain", <<"logger", "torch", "tqdm", "dataloader", "batch_size", "device",
           "model", "F">>, {"all_logits", "inputs", "labels", "logits", "output",
           "uncalibrated_confidences", "y_true"}, <<>>),
      \* lines 247-249
      Cell("plain", <<"np", "uncalibrated_confidences", "accuracy_score", "y_true",
           "logger">>, {"model_accuracy", "y_pred"}, <<>>),
      \* lines 258-259
      Cell("stats", <<"EvalStats", "y_true", "uncalibrated_confidences", "logger">>,
           {"eval_stats"}, <<Call("EvalStats", "y_true", <<>>, <<25>>)>>),
      \* lines 285-298
      Cell("evaluation", <<"logger", "perform_default_evaluation",
           "uncalibrated_confidences", "y_true", "combined_results_into_dataframe">>,
           {"eval_results", "results_df"}, <<Call("perform_default_evaluation",
           "y_true", <<4>>, <<20>>)>>)
    >>

\* the code cells of random_forest_synthetic.ipynb down to its last evaluation cell, without the ordering cell
RandomForestCells ==
    <<
      \* lines 9-9
      Cell("plain", <<>>, {}, <<>>),
      \* lines 46-53
      Cell("plain", <<>>, {"EvalStats", "List", "Path", "logging", "os", "pd", "sys"},
           <<>>),
      \* lines 70-72
      Cell("plain", <<"Path", "sys", "os">>, {"current_working_directory"}, <<>>),
      \* lines 81-89
      Cell("plain", <<>>, {"OUTPUT_DIR", "RANDOM_SEED",
           "combined_results_into_dataframe", "configure_plots",
           "get_rf_calibration_dataset", "perform_default_evaluation",
           "plot_evaluation_results_from_dataframe", "set_random_seed"}, <<>>),
      \* lines 106-109
      Cell("plain", <<"OUTPUT_DIR">>, {"IMBALANCED_WEIGHTS", "output_dir"}, <<>>),
      \* lines 126-130
      Cell("plain", <<"set_random_seed", "RANDOM_SEED", "configure_plots",
           "logging">>, {"logger"}, <<>>),
      \* lines 147-151
      Cell("plain", <<"logger", "get_rf_calibration_dataset", "IMBALANCED_WEIGHTS">>,
           {"balanced_confs", "balanced_gt", "imbalanced_confs", "imbalanced_gt"},
           <<>>),
      \* lines 168-176
      Cell("stats", <<"EvalStats", "balanced_gt", "balanced_confs", "logger",
           "imbalanced_gt", "imbalanced_confs">>, {"eval_stats"}, <<Call("EvalStats",
           "balanced_gt", <<>>, <<25>>), Call("EvalStats", "imbalanced_gt", <<>>,
           <<25>>)>>),
      \* lines 202-213
      Cell("evaluation", <<"logger", "perform_default_evaluation", "balanced_confs",
           "balanced_gt", "combined_results_into_dataframe">>,
           {"balanced_eval_results", "rf_balanced_results_df"},
           <<Call("perform_default_evaluation", "balanced_gt", <<>>, <<>>)>>),
      \* lines 244-255
      Cell("evaluation", <<"logger", "perform_default_evaluation", "imbalanced_confs",
           "imbalanced_gt", "combined_results_into_dataframe">>,
           {"imbalanced_eval_results", "rf_imbalanced_results_df"},
           <<Call("perform_default_evaluation", "imbalanced_gt", <<>>, <<>>)>>)
    >>

\* the code cells of lightgbm_sorel20m.ipynb down to its last evaluation cell, without the ordering cell
LightGBMCells ==
    <<
      \* lines 9-9
      Cell("plain", <<>>, {}, <<>>),
      \* lines 47-55
      Cell("plain", <<>>, {"EvalStats", "List", "accuracy_score", "lgb", "logging",
           "np", "plt", "types"}, <<>>),
      \* lines 64-67
      Cell("plain", <<"Path", "sys", "os">>, {"current_working_directory"}, <<>>),
      \* lines 76-84
      Cell("plain", <<>>, {"DATA_DIR", "OUTPUT_DIR", "RANDOM_SEED",
           "combined_results_into_dataframe", "configure_plots", "download_sorel20m",
           "perform_default_evaluation", "plot_evaluation_results_from_dataframe",
           "set_random_seed"}, <<>>),
      \* lines 101-112
      Cell("plain", <<"OUTPUT_DIR", "DATA_DIR">>, {"classes", "features_dir",
           "features_file", "labels_file", "lightgbm_model_file", "n_classes",
           "output_dir", "output_file", "sorel20m_dir"}, <<>>),
      \* lines 129-133
      Cell("plain", <<"set_random_seed", "RANDOM_SEED", "configure_plots",
           "logging">>, {"logger"}, <<>>),
      \* lines 150-150
      Cell("plain", <<"download_sorel20m", "sorel20m_dir">>, {}, <<>>),
      \* lines 159-166
      Cell("plain", <<"np", "features_file", "labels_file">>, {"X_test", "y_test"},
           <<>>),
      \* lines 175-179
      Cell("plain", <<"plt", "np", "y_test", "classes">>, {"ax", "counts", "fig",
           "values"}, <<>>),
      \* lines 198-211
      Cell("plain", <<"lgb", "lightgbm_model_file", "types">>, {"model",
           "predict_proba"}, <<>>),
      \* lines 220-220
      Cell("plain", <<"lgb", "model">>, {}, <<>>),
      \* lines 237-237
      Cell("plain", <<"model", "X_test">>, {"uncalibrated_confidences"}, <<>>),
      \* lines 246-248
      Cell("plain", <<"np", "uncalibrated_confidences", "accuracy_score", "y_test",
           "logger">>, {"model_accuracy", "y_pred"}, <<>>),
      \* lines 257-258
      Cell("stats", <<"EvalStats", "y_test", "uncalibrated_confidences", "logger">>,
           {"eval_stats"}, <<Call("EvalStats", "y_test", <<>>, <<25>>)>>),
      \* lines 284-295
      Cell("evaluation", <<"logger", "perform_default_evaluation",
           "uncalibrated_confidences", "y_test", "combined_results_into_dataframe">>,
           {"eval_results", "results_df"}, <<Call("perform_default_evaluation",
           "y_test", <<>>, <<>>)>>)
    >>

\* the code cells of resnet56_cifar10.ipynb down to its last evaluation cell, without the ordering cell
ResNet56Cells ==
    <<
      \* lines 9-9
      Cell("plain", <<>>, {}, <<>>),
      \* lines 45-60
      Cell("plain", <<>>, {"EvalStats", "F", "List", "Path", "accuracy_score",
           "get_cifar10_dataloader", "kyle", "logging", "np", "os", "resnet56", "sys",
           "torch", "tqdm"}, <<>>),
      \* lines 77-79
      Cell("plain", <<"Path", "sys", "os">>, {"current_working_directory"}, <<>>),
      \* lines 88-96
      Cell("plain", <<>>, {"DATA_DIR", "OUTPUT_DIR", "RANDOM_SEED",
           "combined_results_into_dataframe", "configure_plots",
           "download_resnet_models", "perform_default_evaluation",
           "plot_evaluation_results_from_dataframe", "set_random_seed"}, <<>>),
      \* lines 113-118
      Cell("plain", <<"OUTPUT_DIR", "DATA_DIR">>, {"output_dir", "output_file",
           "resnet56_model_file", "resnet_dir"}, <<>>),
      \* lines 127-127
      Cell("plain", <<>>, {"n_classes"}, <<>>),
      \* lines 136-136
      Cell("plain", <<"torch">>, {"device"}, <<>>),
      \* lines 153-161
      Cell("plain", <<"set_random_seed", "RANDOM_SEED", "configure_plots", "torch",
           "logging">>, {"logger"}, <<>>),
      \* lines 178-178
      Cell("plain", <<"get_cifar10_dataloader", "os", "resnet_dir">>, {"data_loader"},
           <<>>),
      \* lines 195-195
      Cell("plain", <<"download_resnet_models", "resnet_dir">>, {}, <<>>),
      \* lines 204-209
      Cell("plain", <<"resnet56", "torch", "resnet56_model_file", "device">>,
           {"check_point", "model"}, <<>>),
      \* lines 226-240
      Cell("plain", <<"logger", "torch", "tqdm", "data_loader", "device", "model",
           "F">>, {"features", "labels", "logits", "output", "true_labels",
           "uncalibrated_confidences", "y_true"}, <<>>),
      \* lines 249-251
      Cell("plain", <<"np", "uncalibrated_confidences", "accuracy_score", "y_true",
           "logger">>, {"model_accuracy", "y_pred"}, <<>>),
      \* lines 260-261
      Cell("stats", <<"EvalStats", "y_true", "uncalibrated_confidences", "logger">>,
           {"eval_stats"}, <<Call("EvalStats", "y_true", <<>>, <<25>>)>>),
      \* lines 287-300
      Cell("evaluation", <<"logger", "perform_default_evaluation",
           "uncalibrated_confidences", "y_true", "combined_results_into_dataframe">>,
           {"eval_results", "results_df"}, <<Call("perform_default_evaluation",
           "y_true", <<4>>, <<20>>)>>)
    >>

NotebookCells(dir) ==
    IF dir = "deit_rvl_cdip" THEN DeiTCells
    ELSE IF dir = "distilbert_imdb" THEN DistilBERTCells
    ELSE IF dir = "random_forest_synthetic" THEN RandomForestCells
    ELSE IF dir = "lightgbm_sorel20m" THEN LightGBMCells
    ELSE ResNet56Cells

\* the names a cell uses that the kernel does not know, in order of use
Unresolved(c, names) == SelectSeq(c.uses, LAMBDA n : n \notin names)

\* the next cell of the run is of the given kind
AtCell(kind) ==
    /\ pc \in {"cells", "ordered"}
    /\ runs[1].cell <= Len(NotebookCells(output_dir))
    /\ NotebookCells(output_dir)[runs[1].cell].kind = kind

\* the kernel after it has executed cell c
Executed(c) ==
    [runs EXCEPT ![1].cell = @ + 1,
                 ![1].names = @ \cup c.binds,
                 ![1].calls = @ \o c.calls]

\* NameError: name '...' is not defined
NameError(c) == [kind |-> "NameError", name |-> Unresolved(c, runs[1].names)[1]]

\* a cell without a call of EvalStats or of the evaluator: imports, paths,
\* constants, set_random_seed, data, model, predictions
PlainCell ==
    /\ AtCell("plain")
    /\ LET c == NotebookCells(output_dir)[runs[1].cell]
       IN IF Unresolved(c, runs[1].names) # <<>>
          THEN /\ pc' = "stopped"
               /\ err' = NameError(c)
               /\ UNCHANGED runs
          ELSE /\ runs' = Executed(c)
               /\ UNCHANGED <<pc, err>>
    /\ UNCHANGED <<results_df, reduction_methods_order, files, charts, csv, output_dir,
                   passed, gt_labels, cv, stats_vars>>

\* eval_stats = EvalStats(labels, confidences, bins=...) and the log of
\* eval_stats.expected_calibration_error(); eval_stats is left bound to the
\* object of the cell's last call
StatsCell ==
    /\ AtCell("stats")
    /\ LET c == NotebookCells(output_dir)[runs[1].cell]
       IN IF Unresolved(c, runs[1].names) # <<>>
          THEN /\ pc' = "stopped"
               /\ err' = NameError(c)
               /\ UNCHANGED <<runs, stats_vars>>
          ELSE /\ runs' = Executed(c)
               /\ \E uncalibrated_confidences \in [1..Len(gt_labels) -> ConfidenceRows] :
                     LET stats == [status |-> "made", y_true |-> gt_labels,
                                   confidences |-> uncalibrated_confidences,
                                   bins |-> c.calls[Len(c.calls)].bins[1]]
                     IN /\ eval_stats' = stats
                        /\ ece_before' = ExpectedCalibrationError(stats)
               /\ UNCHANGED <<pc, err>>
    /\ UNCHANGED <<results_df, reduction_methods_order, files, charts, csv, output_dir,
                   passed, gt_labels, cv>>

\* perform_default_evaluation(confidences=..., gt_labels=...[, cv=, bins=]) and
\* combined_results_into_dataframe.  The first evaluation cell of a notebook
\* makes the table the ordering cell reads; the second one of the random
\* forest notebook makes rf_imbalanced_results_df, which the save cell reads.
EvaluationCell ==
    /\ AtCell("evaluation")
    /\ LET c == NotebookCells(output_dir)[runs[1].cell]
           call == c.calls[1]
       IN IF Unresolved(c, runs[1].names) # <<>>
          THEN /\ pc' = "stopped"
               /\ err' = NameError(c)
               /\ UNCHANGED <<runs, cv, results_df>>
          ELSE /\ runs' = Executed(c)
               /\ cv' = IF call.cv = <<>> THEN cv ELSE call.cv[1]
               /\ IF pc = "cells"
                  THEN /\ results_df' \in SeqsUpTo(ExperimentResults(output_dir),
                                                   MaxExperimentRows)
                       /\ pc' = "order"
                  ELSE UNCHANGED <<results_df, pc>>
               /\ UNCHANGED err
    /\ UNCHANGED <<reduction_methods_order, files, charts, csv, output_dir, passed,
                   gt_labels, stats_vars>>

NextCells ==
    \/ PlainCell
    \/ StatsCell
    \/ EvaluationCell
    \/ OrderCell

\* a fresh kernel before the first cell; the labels of the experiment's data
InitCells ==
    /\ pc = "cells"
    /\ output_dir \in ExperimentNotebooks
    /\ results_df = <<>>
    /\ reduction_methods_order = <<>>
    /\ err = NoError
    /\ files = <<>>
    /\ charts = NoCharts
    /\ csv = NoCsv
    /\ gt_labels \in SeqsUpTo(Classes, MaxEceSamples)
    /\ Len(gt_labels) = 1
    /\ cv = 0
    /\ runs = <<[cell |-> 1, names |-> {}, calls |-> <<>>]>>
    /\ passed = <<>>
    /\ eval_stats = NoStats
    /\ ece_before = NoStats

SpecCells == InitCells /\ [][NextCells]_vars

\* the run has executed every cell before its save cell
AtSaveCell ==
    /\ pc = "ordered"
    /\ runs[1].cell > Len(NotebookCells(output_dir))

\* the calls of perform_default_evaluation the run has made
EvaluationCalls ==
    SelectSeq(runs[1].calls, LAMBDA c : c.function = "perform_default_evaluation")

(***************************************************************************)
(* C23: the DistilBERT notebook calls the evaluator with cv=4 and bins=20, *)
(* and every evaluator call of every other experiment notebook passes      *)
(* neither a fold count nor a bin count.                                   *)
(***************************************************************************)
C23_OnlyDistilBERTOverrides ==
    \A i \in 1..Len(EvaluationCalls) :
        LET call == EvaluationCalls[i]
        IN IF output_dir = "distilbert_imdb"
           THEN call.cv = <<4>> /\ call.bins = <<20>>
           ELSE call.cv = <<>> /\ call.bins = <<>>

(***************************************************************************)
(* C28: a run of the LightGBM notebook from its first cell never stops     *)
(* with a NameError: every name a cell uses has been imported, defined or  *)
(* assigned by an earlier cell (or by the cell itself), Path, sys and os   *)
(* of the path-setup cell included.                                        *)
(***************************************************************************)
C28_LightGBMNamesAreBound ==
    output_dir = "lightgbm_sorel20m" => err.kind # "NameError"

(***************************************************************************)
(* C30: in every experiment notebook, the bin count of the EvalStats       *)
(* object whose Expected Calibration Error is logged before calibration    *)
(* equals the bin count with which the evaluator is called on the same     *)
(* labels and confidences.                                                 *)
(***************************************************************************)
\* the bin count of an evaluator call that passes none, as the notebooks
\* document it ("25 bins")
DefaultBins == 25

EvaluatorBins(call) == IF call.bins = <<>> THEN DefaultBins ELSE call.bins[1]

C30_LoggedECEUsesEvaluationBins ==
    \A i \in 1..Len(runs[1].calls) : \A j \in 1..i :
        LET evaluation == runs[1].calls[i]
            stats == runs[1].calls[j]
        IN (/\ evaluation.function = "perform_default_evaluation"
            /\ stats.function = "EvalStats"
            /\ stats.data = evaluation.data)
           => stats.bins[1] = EvaluatorBins(evaluation)

(***************************************************************************)
(* C24: once the combined notebook has built reduction_methods_order, its  *)
(* first element is the uncalibrated baseline variant whenever the         *)
(* filtered records hold that variant, and the list is the one the         *)
(* notebook builds for every other order of discovery of the results       *)
(* files and for every other order of the records.                         *)
(***************************************************************************)
OrderBuilt ==
    pc \in {"ordered", "plot2", "plot3", "plot4", "plot5", "tables_ece", "tables_cwece", "done"}

\* the list the ordering cell builds from a table
OrderOf(df) == OrderVariants(Unique(ReductionColumn(df)))

\* the rows of df in every order
Reorderings(df) ==
    {[i \in 1..Len(df) |-> df[p[i]]] : p \in DiscoveryOrders(1..Len(df))}

C24_BaselinePinnedForEveryOrder ==
    OrderBuilt =>
        /\ (\E i \in 1..Len(results_df) : results_df[i].ReductionMethod \in UnreducedNonClassWise)
              => reduction_methods_order[1] \in UnreducedNonClassWise
        /\ \A o \in DiscoveryOrders(DOMAIN files) :
              OrderOf(FilterResults(FillMissing(Concat([i \in 1..Len(o) |-> files[o[i]]]))))
                 = reduction_methods_order
        /\ \A df \in Reorderings(results_df) : OrderOf(df) = reduction_methods_order

(***************************************************************************)
(* C25: once the combined notebook has built reduction_methods_order, the  *)
(* list holds every Reduction Method value of the filtered records exactly *)
(* once and nothing else, none of its elements contains "weighted" in any  *)
(* letter case, and it is not empty; and the ordering cell stops the       *)
(* notebook only when no record survived the filter.                       *)
(***************************************************************************)
C25_OrderIsPermutationOfSurvivors ==
    /\ OrderBuilt =>
          LET order == reduction_methods_order
              survivors == {results_df[i].ReductionMethod : i \in 1..Len(results_df)}
          IN /\ {order[i] : i \in 1..Len(order)} = survivors
             /\ \A i, j \in 1..Len(order) : order[i] = order[j] => i = j
             /\ \A i \in 1..Len(order) : ~ContainsWeightedAnyCase(order[i])
             /\ Len(order) >= 1
    /\ (pc = "stopped" /\ err.kind = "IndexError") => results_df = <<>>

\* the list of the two surviving variants of files that also held a record
\* of a weighted variant
C25_Witness ==
    /\ OrderBuilt
    /\ Len(reduction_methods_order) = 2
    /\ Len(results_df) = 2
    /\ \E x \in RowsRead : ContainsWeightedAnyCase(files[x[1]][x[2]].ReductionMethod)

(***************************************************************************)
(* The LightGBM notebook's predict_proba, attached to the booster, and the *)
(* cell that calls it on X_test.  The booster's predict gives one value    *)
(* per row, the confidence of class 1, a multiple of 1/ConfidenceSteps.    *)
(***************************************************************************)
\* the values model.predict can give for a row
BoosterOutputs == {RNorm(k, ConfidenceSteps) : k \in 0..ConfidenceSteps}

\* np.append(a, b, axis=1) of two matrices with the same number of rows
AppendColumns(a, b) == [i \in 1..Len(a) |-> a[i] \o b[i]]

\* predict_proba with column 0 set from itself: y[:, 0] = 1.0 - y[:, 0]
PredictProbaFromZeros(predicted) ==
    LET y == [i \in 1..Len(predicted) |-> <<predicted[i]>>]
        appended == AppendColumns([i \in 1..Len(y) |-> <<RZero>>], y)
    IN [i \in 1..Len(appended) |->
           [appended[i] EXCEPT ![1] = RSub(RInt(1), appended[i][1])]]

\* predict_proba(self, X), predicted being model.predict(X):
\* y = y[:, np.newaxis]; y = np.append(np.zeros(y.shape), y, axis=1);
\* y[:, 0] = 1.0 - y[:, 1].  Column c of the matrix is entry c + 1 of a row.
PredictProba(predicted) ==
    LET y == [i \in 1..Len(predicted) |-> <<predicted[i]>>]
        appended == AppendColumns([i \in 1..Len(y) |-> <<RZero>>], y)
    IN [i \in 1..Len(appended) |->
           [appended[i] EXCEPT ![1] = RSub(RInt(1), appended[i][2])]]

\* uncalibrated_confidences = model.predict_proba(X_test)
PredictProbaCell ==
    /\ pc = "predict_proba"
    /\ runs' = [runs EXCEPT ![1].uncalibrated_confidences = PredictProba(runs[1].predicted)]
    /\ pc' = "accuracy"
    /\ UNCHANGED <<notebook_vars_but_pc, stats_vars, gt_labels, cv>>

\* X_test and y_test are loaded and the booster has predict_proba attached;
\* predicted is what model.predict gives for the rows of X_test
InitAdapter ==
    /\ pc = "predict_proba"
    /\ output_dir = "lightgbm_sorel20m"
    /\ results_df = <<>>
    /\ reduction_methods_order = <<>>
    /\ err = NoError
    /\ files = <<>>
    /\ charts = NoCharts
    /\ csv = NoCsv
    /\ gt_labels \in SeqsUpTo(Classes, MaxEceSamples)
    /\ cv = 0
    /\ \E predicted \in SeqsUpTo(BoosterOutputs, MaxEceSamples) :
          /\ Len(predicted) = Len(gt_labels)
          /\ runs = <<[predicted |-> predicted, uncalibrated_confidences |-> <<>>]>>
    /\ passed = <<>>
    /\ eval_stats = NoStats
    /\ ece_before = NoStats

SpecAdapter == InitAdapter /\ [][PredictProbaCell]_vars

(***************************************************************************)
(* C26: the matrix predict_proba returns has one row of two entries for    *)
(* every value of the booster, in the same order; entry 1 of a row is the  *)
(* booster's value p, entry 0 is 1 - p; the two entries add up to 1 and    *)
(* lie in [0, 1].                                                          *)
(***************************************************************************)
RInUnit(x) == 0 <= x[1] /\ x[1] <= x[2]

C26_PredictProbaIsRowStochastic ==
    pc = "accuracy" =>
        LET p == runs[1].predicted
            m == runs[1].uncalibrated_confidences
        IN /\ Len(m) = Len(p)
           /\ \A i \in 1..Len(m) :
                 /\ Len(m[i]) = 2
                 /\ m[i][2] = p[i]
                 /\ m[i][1] = RSub(RInt(1), p[i])
                 /\ RAdd(m[i][1], m[i][2]) = RInt(1)
                 /\ RInUnit(m[i][1]) /\ RInUnit(m[i][2])

\* the matrix of the largest number of rows, with a row of p strictly
\* between 0 and 1 and rows of different p
C26_Witness ==
    /\ pc = "accuracy"
    /\ Len(runs[1].uncalibrated_confidences) = MaxEceSamples
    /\ \E i, j \in 1..MaxEceSamples :
          /\ runs[1].predicted[i] # runs[1].predicted[j]
          /\ runs[1].uncalibrated_confidences[i][2] = RNorm(1, ConfidenceSteps)
          /\ runs[1].uncalibrated_confidences[i][1] = RNorm(ConfidenceSteps - 1, ConfidenceSteps)

(***************************************************************************)
(* The DeiT notebook's loading cell: the loop over the lines of the test   *)
(* and validation label files that fills the lists images and labels, and  *)
(* the making and filling of features_array.  An image path is the         *)
(* position <<file, line>> of its line; the features of an image are a     *)
(* function of the image, here its path.                                   *)
(***************************************************************************)
MaxLabelLines == 2

\* the lines a label file can hold, "<relative path> <label>": what the image
\* at the path is (a readable image, a file open_image gives None for, or no
\* file) and the label token
LabelLines ==
    {[image |-> "ok", label |-> "0"], [image |-> "ok", label |-> "1"],
     [image |-> "unopenable", label |-> "0"], [image |-> "missing", label |-> "1"],
     [image |-> "ok", label |-> "x"]}

\* int(label): the integer of a decimal token; any other token raises ValueError
IsIntLiteral(token) == token \in {"0", "1"}
IntOf(token) == IF token = "0" THEN 0 ELSE 1

\* the label files are read: a file without lines has no turn
LinesRead ==
    \/ runs[1].file > Len(runs[1].label_files)
    \/ \A f \in runs[1].file..Len(runs[1].label_files) : runs[1].label_files[f] = <<>>

\* one turn of the loop with the label appended before the image is opened
ReadLineLabelFirst ==
    /\ pc = "read_lines"
    /\ ~LinesRead
    /\ LET run == runs[1]
           line == run.label_files[run.file][run.line]
           last == run.line = Len(run.label_files[run.file])
           after == [run EXCEPT !.line = IF last THEN 1 ELSE @ + 1,
                                !.file = IF last THEN @ + 1 ELSE @]
       IN IF line.image = "missing"
          THEN /\ pc' = "stopped"
               /\ err' = [kind |-> "AssertionError"]
               /\ UNCHANGED runs
          ELSE IF ~IsIntLiteral(line.label)
          THEN /\ pc' = "stopped"
               /\ err' = [kind |-> "ValueError"]
               /\ UNCHANGED runs
          ELSE /\ runs' = [runs EXCEPT ![1] =
                             [after EXCEPT
                                 !.labels = Append(@, IntOf(line.label)),
                                 !.images = IF line.image = "unopenable" THEN @
                                            ELSE Append(@, <<run.file, run.line>>)]]
               /\ UNCHANGED <<pc, err>>
    /\ UNCHANGED <<results_df, reduction_methods_order, files, charts, csv, output_dir,
                   passed, gt_labels, cv, stats_vars>>

\* one turn of the loop over the lines: split the line, assert that the image
\* file exists, skip the line when open_image gives None, append the path to
\* images, then append int(label) to labels
ReadLine ==
    /\ pc = "read_lines"
    /\ ~LinesRead
    /\ LET run == runs[1]
           line == run.label_files[run.file][run.line]
           last == run.line = Len(run.label_files[run.file])
           after == [run EXCEPT !.line = IF last THEN 1 ELSE @ + 1,
                                !.file = IF last THEN @ + 1 ELSE @]
       IN IF line.image = "missing"
          THEN /\ pc' = "stopped"
               /\ err' = [kind |-> "AssertionError"]
               /\ UNCHANGED runs
          ELSE IF line.image = "unopenable"
          THEN /\ runs' = [runs EXCEPT ![1] = after]
               /\ UNCHANGED <<pc, err>>
          ELSE IF ~IsIntLiteral(line.label)
          THEN /\ pc' = "stopped"
               /\ err' = [kind |-> "ValueError"]
               /\ runs' = [runs EXCEPT ![1].images = Append(@, <<run.file, run.line>>)]
          ELSE /\ runs' = [runs EXCEPT ![1] =
                             [after EXCEPT
                                 !.images = Append(@, <<run.file, run.line>>),
                                 !.labels = Append(@, IntOf(line.label))]]
               /\ UNCHANGED <<pc, err>>
    /\ UNCHANGED <<results_df, reduction_methods_order, files, charts, csv, output_dir,
                   passed, gt_labels, cv, stats_vars>>

\* after the loop: open_image(images[0]) raises IndexError on an empty list;
\* features_array = np.memmap(shape=(len(labels), ...)), then
\* features_array[i] = x for i, image_file in enumerate(images), which raises
\* IndexError for a row the array does not have; y_true comes from labels
MakeFeatures ==
    /\ pc = "read_lines"
    /\ LinesRead
    /\ LET images == runs[1].images
           labels == runs[1].labels
       IN IF images = <<>> \/ Len(images) > Len(labels)
          THEN /\ pc' = "stopped"
               /\ err' = [kind |-> "IndexError"]
               /\ UNCHANGED <<runs, gt_labels>>
          ELSE /\ pc' = "loaded"
               /\ runs' = [runs EXCEPT ![1].features_array =
                              [i \in 1..Len(labels) |->
                                  IF i <= Len(images) THEN images[i] ELSE <<0, 0>>]]
               /\ gt_labels' = labels
               /\ UNCHANGED err
    /\ UNCHANGED <<results_df, reduction_methods_order, files, charts, csv, output_dir,
                   passed, cv, stats_vars>>

\* the label files are on disk, images and labels are empty, the loop is
\* before the first line of the first file that has one
InitLoading ==
    /\ pc = "read_lines"
    /\ output_dir = "deit_rvl_cdip"
    /\ results_df = <<>>
    /\ reduction_methods_order = <<>>
    /\ err = NoError
    /\ files = <<>>
    /\ charts = NoCharts
    /\ csv = NoCsv
    /\ gt_labels = <<>>
    /\ cv = 0
    /\ \E test_labels, validation_labels \in SeqsUpTo(LabelLines, MaxLabelLines) :
          runs = <<[label_files |-> <<test_labels, validation_labels>>,
                    file |-> IF test_labels = <<>> THEN 2 ELSE 1, line |-> 1,
                    images |-> <<>>, labels |-> <<>>, features_array |-> <<>>]>>
    /\ passed = <<>>
    /\ eval_stats = NoStats
    /\ ece_before = NoStats

NextLoading ==
    \/ ReadLine
    \/ MakeFeatures

SpecLoading == InitLoading /\ [][NextLoading]_vars

(***************************************************************************)
(* C27 as stated: after any sequence of lines, images and labels have the  *)
(* same length and position i of both refers to the same line: labels[i]   *)
(* is the label of the line whose image path is images[i].                 *)
(***************************************************************************)
\* the line of the label files an image path comes from
LineOf(path) == runs[1].label_files[path[1]][path[2]]

Aligned ==
    /\ Len(runs[1].images) = Len(runs[1].labels)
    /\ \A i \in 1..Len(runs[1].images) :
          /\ IsIntLiteral(LineOf(runs[1].images[i]).label)
          /\ runs[1].labels[i] = IntOf(LineOf(runs[1].images[i]).label)

C27_ImagesAndLabelsAligned == Aligned

(***************************************************************************)
(* C27, amended: unless the cell has stopped on a label that is not an     *)
(* integer, images and labels have the same length and position i of both  *)
(* refers to the same line, the kept lines in the order of the files; a    *)
(* label that is not an integer stops the cell with its image path in      *)
(* images and no label for it; once features_array is made it has one row  *)
(* per kept label, row i holding the features of images[i], and no array   *)
(* is made by a cell that stopped.                                         *)
(***************************************************************************)
C27_AlignedUnlessLabelNotInteger ==
    /\ err.kind # "ValueError" => Aligned
    /\ err.kind = "ValueError" =>
          /\ Len(runs[1].images) = Len(runs[1].labels) + 1
          /\ ~IsIntLiteral(LineOf(runs[1].images[Len(runs[1].images)]).label)
    /\ \A i, j \in 1..Len(runs[1].images) :
          i < j => \/ runs[1].images[i][1] < runs[1].images[j][1]
                   \/ /\ runs[1].images[i][1] = runs[1].images[j][1]
                      /\ runs[1].images[i][2] < runs[1].images[j][2]
    /\ \A i \in 1..Len(runs[1].images) : LineOf(runs[1].images[i]).image = "ok"
    /\ pc = "loaded" =>
          /\ Len(runs[1].features_array) = Len(runs[1].labels)
          /\ \A i \in 1..Len(runs[1].labels) :
                runs[1].features_array[i] = runs[1].images[i]
          /\ gt_labels = runs[1].labels
    /\ pc = "stopped" => runs[1].features_array = <<>>

\* the array is made from lines of both files, after a line of the first
\* file was skipped because its image could not be opened
C27_Witness ==
    /\ pc = "loaded"
    /\ Len(runs[1].features_array) = 2
    /\ runs[1].images[1][1] = 1
    /\ runs[1].images[2][1] = 2
    /\ \E k \in 1..Len(runs[1].label_files[1]) :
          runs[1].label_files[1][k].image = "unopenable"

(***************************************************************************)
(* The combined notebook run twice over the same results files             *)
(***************************************************************************)
\* the notebook has run to its end and is run again from its load cell: the
\* files on disk stay as the first run left them, as do the variables of
\* the kernel until a cell binds them again.  What the first run read and
\* wrote is kept for comparison
RunAgain ==
    /\ pc = "done"
    /\ runs = <<>>
    /\ runs' = <<[files |-> files, csv |-> csv,
                 reduction_methods_order |-> reduction_methods_order]>>
    /\ pc' = "load"
    /\ UNCHANGED <<results_df, reduction_methods_order, err, files, charts, csv,
                   output_dir, passed, gt_labels, cv, stats_vars>>

NextTwice ==
    \/ NextCombined
    \/ RunAgain

\* the results files of two experiments, each with up to MaxFileRows records
\* of the baseline and of a class-wise variant, in any order
InitTwice ==
    /\ pc = "load"
    /\ results_df = <<>>
    /\ reduction_methods_order = <<>>
    /\ err = NoError
    /\ \E deit \in SeqsUpTo({Rec("DeiT", "RVL-CDIP", "Isotonic", N_Baseline, "ECE", 0, 2),
                              Rec("DeiT", "RVL-CDIP", "Isotonic", N_CW, "ECE", 0, 1),
                              Rec("DeiT", "RVL-CDIP", "Isotonic", N_CW, "cwECE", 0, 1)},
                             MaxFileRows) :
       \E distilbert \in SeqsUpTo({Rec("DistilBERT", "IMDB", "Isotonic", N_Baseline, "ECE", 0, 2),
                                    Rec("DistilBERT", "IMDB", "Isotonic", N_CW, "ECE", 0, 1),
                                    Rec("DistilBERT", "IMDB", "Isotonic", N_CW, "cwECE", 0, 1)},
                                   MaxFileRows) :
          files = [d \in ExperimentDirs |->
                      IF d = "deit_rvl_cdip" THEN deit ELSE distilbert]
    /\ charts = NoCharts
    /\ csv = NoCsv
    /\ gt_labels = <<>>
    /\ cv = 0
    /\ runs = <<>>
    /\ output_dir = "combined_results"
    /\ passed = <<>>
    /\ eval_stats = NoStats
    /\ ece_before = NoStats

SpecTwice == InitTwice /\ [][NextTwice]_vars

\* the second run has written its tables
SecondRunDone == runs # <<>> /\ pc = "done"

\* no file the combined notebook writes is named results.csv, and the
\* results files the second run finds are the ones the first run found
ReadsNoFileItWrote ==
    /\ "results.csv" \notin SummaryFiles
    /\ \A k \in 1..Len(PlotFiles) : PlotFiles[k] # "results.csv"
    /\ DOMAIN csv = SummaryFiles
    /\ DOMAIN charts \subseteq {PlotFiles[k] : k \in 1..Len(PlotFiles)}
    /\ output_dir \notin DOMAIN files
    /\ runs # <<>> => files = runs[1].files

Entry(table, g, variant) ==
    table.rows[g][CHOOSE i \in 1..Len(table.columns) : table.columns[i] = variant]

\* two tables with the same groups, the same variants and the same entry
\* for every group and variant, whatever the order of the columns
SameUpToColumnOrder(a, b) ==
    /\ a.status = "ok" /\ b.status = "ok"
    /\ DOMAIN a.rows = DOMAIN b.rows
    /\ Len(a.columns) = Len(b.columns)
    /\ {a.columns[i] : i \in 1..Len(a.columns)} = {b.columns[i] : i \in 1..Len(b.columns)}
    /\ \A g \in DOMAIN a.rows : \A i \in 1..Len(a.columns) :
          Entry(a, g, a.columns[i]) = Entry(b, g, a.columns[i])

=============================================================================
